---- MODULE Spec2Model ----
(***************************************************************************)
(* A model of borg's Repository / LoggedIO (src/src/borg/repository.py):   *)
(* a transactional key-value store on a segmented, append-only log.        *)
(*                                                                         *)
(* The handlers of the source are translated as operators on a machine     *)
(* state record  s = [d, io, r, err, ret, durable, rec, trace, unused]:    *)
(*   d    the directory: segment files, index.N, hints.N, *.tmp            *)
(*   io   the LoggedIO object                                              *)
(*   r    the Repository object                                            *)
(*   err  "ok", or the name of the exception that is propagating           *)
(*   ret  the value the last call returned                                 *)
(*   trace  the directory contents after every write so far (the states    *)
(*          a process kill can leave behind), durable: whether the         *)
(*          transaction's COMMIT frame was completely written by then      *)
(* An operator does nothing once s.err # "ok": the exception propagates.   *)
(* File writes are modelled as reaching the file at once.                  *)
(***************************************************************************)
EXTENDS Integers, Sequences, FiniteSets, TLC

\* ------------------------------------------------------------------ bounds
MaxMutations == 3
MaxCommits == 2
MaxRollbacks == 2
MaxReads == 1
MaxCrashes == 1
MaxSegmentSize == 250
MaxSessionMutations == 4
MaxFaults == 1

\* ------------------------------------------------------- program constants
MAGIC_LEN == 8
HeaderSize == 9
PutHeaderSize == 41

Keys == {"k1", "k2"}
Values == {"small", "big"}

\* len(data) of the two values the model stores
ValLen(v) == IF v = "small" THEN 1 ELSE 200

\* ------------------------------------------------------------ map helpers
EmptyMap == <<>>

MapSet(m, k, v) == [x \in (DOMAIN m) \cup {k} |-> IF x = k THEN v ELSE m[x]]

MapDel(m, k) == [x \in (DOMAIN m) \ {k} |-> m[x]]

MapGet(m, k, dflt) == IF k \in DOMAIN m THEN m[k] ELSE dflt

\* defaultdict(int) / counter update: m[k] += n, a missing entry counts as 0
MapAdd(m, k, n) == MapSet(m, k, MapGet(m, k, 0) + n)

SetMax(S) == CHOOSE x \in S : \A y \in S : y <= x

SetMin(S) == CHOOSE x \in S : \A y \in S : x <= y

RECURSIVE SortedSeq(_)
SortedSeq(S) == IF S = {} THEN <<>> ELSE <<SetMin(S)>> \o SortedSeq(S \ {SetMin(S)})

Reverse(q) == [i \in 1..Len(q) |-> q[Len(q) + 1 - i]]

\* ----------------------------------------------------------------- frames
\* A log entry. ok = FALSE: the bytes on disk do not form the frame any more
\* (a partly written frame), so its CRC check fails.
PutFrame(k, v) == [tag |-> "PUT", key |-> k, val |-> v, ok |-> TRUE]

DeleteFrame(k) == [tag |-> "DELETE", key |-> k, val |-> "", ok |-> TRUE]

CommitFrame == [tag |-> "COMMIT", key |-> "", val |-> "", ok |-> TRUE]

TornCommitFrame == [tag |-> "COMMIT", key |-> "", val |-> "", ok |-> FALSE]

FrameSize(f) ==
    CASE f.tag = "PUT" -> PutHeaderSize + ValLen(f.val)
      [] f.tag = "DELETE" -> PutHeaderSize
      [] OTHER -> HeaderSize

RECURSIVE SumSizes(_, _)
SumSizes(frames, n) == IF n = 0 THEN 0 ELSE FrameSize(frames[n]) + SumSizes(frames, n - 1)

\* byte offset of the i-th frame of a segment file
OffsetOf(frames, i) == MAGIC_LEN + SumSizes(frames, i - 1)

FileSize(frames) == MAGIC_LEN + SumSizes(frames, Len(frames))

\* the position of the frame that starts at byte offset off, 0 if none does
FrameIndexAt(frames, off) ==
    IF \E i \in 1..Len(frames) : OffsetOf(frames, i) = off
    THEN CHOOSE i \in 1..Len(frames) : OffsetOf(frames, i) = off
    ELSE 0

\* ------------------------------------------------------- the machine state
Raise(s, e) == [s EXCEPT !.err = e]

Return(s, v) == [s EXCEPT !.ret = v]

Failed(s) == s.err # "ok"

\* the segment files as the directory names them: segment id -> frames
Linked(d) == [n \in DOMAIN d.dir |-> d.ino[d.dir[n]]]

\* what a process kill at this point leaves on disk
DiskView(d) ==
    [segs |-> Linked(d), idxf |-> d.idxf, hintf |-> d.hintf, tmpf |-> d.tmpf, bad |-> d.bad]

\* record what a kill would leave (only when the caller asks for the trace)
Record(s, snaps) == IF s.rec THEN [s EXCEPT !.trace = @ \cup snaps] ELSE s

Snap(s) == IF s.rec THEN Record(s, {[disk |-> DiskView(s.d), durable |-> s.durable]}) ELSE s

FreshInode(d) == SetMin((1..(Cardinality(DOMAIN d.ino) + 1)) \ DOMAIN d.ino)

\* the result v of a call, handed to the code that follows the call (the operator
\* argument, named ^+ here and given as a LAMBDA where Bind is used)
Bind(v, _^+) == v^+

\* --------------------------------------------------------------- LoggedIO
\* LoggedIO.__init__
NewIO == [segment |-> 0, offset |-> 0, wfd |-> 0, fds |-> EmptyMap]

\* sorted segment ids of data/, the order of LoggedIO.segment_iterator
segment_iterator(s) == SortedSeq(DOMAIN s.d.dir)

get_latest_segment(s) == IF DOMAIN s.d.dir = {} THEN -1 ELSE SetMax(DOMAIN s.d.dir)

segment_exists(s, segment) == segment \in DOMAIN s.d.dir

\* os.path.getsize of the segment file, by name
segment_size(s, segment) == FileSize(s.d.ino[s.d.dir[segment]])

\* the read fd cache: a cached fd keeps its file, whatever the name now refers to
get_fd(s, segment) ==
    IF Failed(s) THEN s
    ELSE IF segment \in DOMAIN s.io.fds THEN Return(s, s.io.fds[segment])
    ELSE IF segment \in DOMAIN s.d.dir
         THEN Return([s EXCEPT !.io.fds = MapSet(@, segment, s.d.dir[segment])],
                     s.d.dir[segment])
         ELSE Raise(s, "FileNotFoundError")

\* the frames a reader of segment gets through the fd cache (after get_fd)
FdFrames(s, segment) == s.d.ino[s.io.fds[segment]]

\* number of leading frames iter_objects yields before it raises IntegrityError
RECURSIVE GoodPrefix(_, _)
GoodPrefix(frames, i) ==
    IF i > Len(frames) \/ ~frames[i].ok THEN i - 1 ELSE GoodPrefix(frames, i + 1)

close_segment(s) ==
    IF Failed(s) \/ s.io.wfd = 0 THEN s
    ELSE [s EXCEPT !.io.segment = @ + 1, !.io.offset = 0, !.io.wfd = 0]

\* SyncFile(path): open(path, 'wb'): a new file, or the existing one emptied
SyncFile(s, segment) ==
    IF segment \in DOMAIN s.d.dir
    THEN [s EXCEPT !.d.ino[s.d.dir[segment]] = <<>>, !.io.wfd = s.d.dir[segment]]
    ELSE [s EXCEPT !.d.ino = MapSet(@, FreshInode(s.d), <<>>),
                   !.d.dir = MapSet(@, segment, FreshInode(s.d)),
                   !.io.wfd = FreshInode(s.d)]

\* "if not self._write_fd": open the segment file and write MAGIC
OpenWriteFd(s) ==
    IF s.io.wfd # 0 THEN s
    ELSE Snap([SyncFile(s, s.io.segment) EXCEPT !.io.offset = MAGIC_LEN])

\* "self.offset and self.offset > self.limit"
SegmentIsFull(s) == s.io.offset # 0 /\ s.io.offset > MaxSegmentSize

get_write_fd(s, raise_full) ==
    IF Failed(s) THEN s
    ELSE IF SegmentIsFull(s) /\ raise_full THEN Raise(s, "SegmentFull")
    ELSE OpenWriteFd(IF SegmentIsFull(s) THEN close_segment(s) ELSE s)

\* fd.write(frame) on the write fd
WriteFrame(s, f) ==
    Snap([s EXCEPT !.d.ino[s.io.wfd] = Append(@, f), !.io.offset = @ + FrameSize(f)])

write_put(s, id, data, raise_full) ==
    Bind(get_write_fd(s, raise_full), LAMBDA s1 :
        IF Failed(s1) THEN s1
        ELSE Return(WriteFrame(s1, PutFrame(id, data)), <<s1.io.segment, s1.io.offset>>))

write_delete(s, id, raise_full) ==
    Bind(get_write_fd(s, raise_full), LAMBDA s1 :
        IF Failed(s1) THEN s1
        ELSE Return(WriteFrame(s1, DeleteFrame(id)), <<s1.io.segment, PutHeaderSize>>))

\* the directory as a kill in the middle of writing the COMMIT frame leaves it
TornCommit(s) ==
    [disk |-> DiskView([s.d EXCEPT !.ino[s.io.wfd] = Append(@, TornCommitFrame)]),
     durable |-> s.durable]

write_commit(s) ==
    Bind(get_write_fd(close_segment(s), FALSE), LAMBDA s1 :
        IF Failed(s1) THEN s1
        ELSE close_segment(WriteFrame(IF s1.rec THEN Record(s1, {TornCommit(s1)}) ELSE s1,
                                      CommitFrame)))

\* the directory with the segments >= from unlinked
Unlinked(d, from) == [d EXCEPT !.dir = [n \in {m \in DOMAIN d.dir : m < from} |-> d.dir[n]]]

\* cleanup without "self.segment = transaction_id + 1"
cleanup_keeps_position(s, transaction_id) ==
    IF Failed(s) THEN s
    ELSE Record([s EXCEPT !.d = Unlinked(s.d, transaction_id + 1)],
                IF s.rec
                THEN {[disk |-> DiskView(Unlinked(s.d, n)), durable |-> s.durable] :
                      n \in {m \in DOMAIN s.d.dir : m > transaction_id}}
                ELSE {})

cleanup(s, transaction_id) ==
    IF Failed(s) THEN s
    ELSE Record([s EXCEPT !.io.segment = transaction_id + 1,
                          !.d = Unlinked(s.d, transaction_id + 1)],
                IF s.rec
                THEN {[disk |-> DiskView(Unlinked(s.d, n)), durable |-> s.durable] :
                      n \in {m \in DOMAIN s.d.dir : m > transaction_id}}
                ELSE {})

delete_segment(s, segment) ==
    IF Failed(s) THEN s
    ELSE Snap([s EXCEPT !.io.fds = MapDel(@, segment), !.d.dir = MapDel(@, segment)])

\* _read at the i-th frame of frames (0: no frame starts at the offset): the
\* data (read_data) or the size of the PUT frame of id; anything else fails a check
ReadFrame(s, frames, i, id, read_data) ==
    IF i = 0 THEN Raise(s, "IntegrityError")
    ELSE IF frames[i].tag # "PUT" \/ frames[i].key # id \/ (read_data /\ ~frames[i].ok)
         THEN Raise(s, "IntegrityError")
    ELSE Return(s, IF read_data THEN frames[i].val ELSE FrameSize(frames[i]))

\* LoggedIO.read: the PUT frame of id that starts at offset in segment
read(s, segment, offset, id, read_data) ==
    Bind(get_fd(s, segment), LAMBDA s1 :
        IF Failed(s1) THEN s1
        ELSE ReadFrame(s1, FdFrames(s1, segment),
                       FrameIndexAt(FdFrames(s1, segment), offset), id, read_data))

\* every frame is valid, there is a COMMIT and none but COMMITs follow a COMMIT
EndsCommitted(frames) ==
    /\ GoodPrefix(frames, 1) = Len(frames)
    /\ \E i \in 1..Len(frames) : frames[i].tag = "COMMIT"
    /\ \A i, j \in 1..Len(frames) :
          (i < j /\ frames[i].tag = "COMMIT") => frames[j].tag = "COMMIT"

\* the last 9 bytes of the file, read by name, are the COMMIT frame; then the
\* frames are read through the fd cache
is_committed_segment(s, segment) ==
    IF Failed(s) THEN s
    ELSE IF s.d.ino[s.d.dir[segment]] = <<>>
            \/ s.d.ino[s.d.dir[segment]][Len(s.d.ino[s.d.dir[segment]])] # CommitFrame
         THEN Return(s, FALSE)
    ELSE Bind(get_fd(s, segment), LAMBDA s1 :
             Return(s1, EndsCommitted(FdFrames(s1, segment))))

\* ret: the highest committed segment, -1 for None
RECURSIVE ScanCommitted(_, _, _)
ScanCommitted(s, order, i) ==
    IF Failed(s) THEN s
    ELSE IF i > Len(order) THEN Return(s, -1)
    ELSE Bind(is_committed_segment(s, order[i]), LAMBDA s1 :
             IF Failed(s1) THEN s1
             ELSE IF s1.ret THEN Return(s1, order[i])
             ELSE ScanCommitted(s1, order, i + 1))

get_segments_transaction_id(s) == ScanCommitted(s, Reverse(segment_iterator(s)), 1)

\* ------------------------------------------------------------- Repository
\* self.index: None, or an NSIndex holding the map key -> <<segment, offset>>
NoneIndex == [none |-> TRUE, m |-> EmptyMap]

NSIndex(m) == [none |-> FALSE, m |-> m]

\* "not self.index": None is false, and so is an NSIndex of length 0 (it has __len__)
NotIndex(index) == index.none \/ DOMAIN index.m = {}

\* Repository.__init__ : segments and compact are no attributes yet (hset), and
\* no lock is held
NewRepo(append_only) ==
    [index |-> NoneIndex, active |-> FALSE, segments |-> EmptyMap, compact |-> EmptyMap,
     hset |-> FALSE, append_only |-> append_only, lock |-> FALSE]

\* Repository.open: the lock is acquired, then the config file is read; a config
\* without the repository section or with another version raises
\* InvalidRepository, else self.io is a new LoggedIO
open(s, lock) ==
    IF <<"config", 0>> \in s.d.bad
    THEN Raise([s EXCEPT !.r.lock = lock], "InvalidRepository")
    ELSE [s EXCEPT !.r.lock = lock, !.io = NewIO]

\* Repository.close: "if self.lock:" io is closed and dropped, the lock released
close(s) == IF ~s.r.lock THEN s ELSE [s EXCEPT !.io = NewIO, !.r.lock = FALSE]

\* ret: the highest N with an index.N file, -1 for None
get_index_transaction_id(s) == IF DOMAIN s.d.idxf = {} THEN -1 ELSE SetMax(DOMAIN s.d.idxf)

rollback(s) == [s EXCEPT !.r.index = NoneIndex, !.r.active = FALSE]

\* _update_index, TAG_PUT: a PUT of key at <<segment, offset>>
update_put(s, segment, key, offset, size) ==
    [s EXCEPT !.r.index.m = MapSet(@, key, <<segment, offset>>),
              !.r.compact = IF key \in DOMAIN s.r.index.m
                            THEN MapAdd(@, s.r.index.m[key][1], size) ELSE @,
              !.r.segments =
                  MapAdd(IF key \in DOMAIN s.r.index.m /\ s.r.index.m[key][1] \in DOMAIN @
                         THEN MapAdd(@, s.r.index.m[key][1], -1) ELSE @,
                         segment, 1)]

\* _update_index, TAG_DELETE: key was in the index at old = <<segment, offset>>
update_delete(s, key, old) ==
    IF ~segment_exists(s, old[1]) THEN s
    ELSE IF old[1] \notin DOMAIN s.r.segments THEN Raise(s, "KeyError")
    ELSE Bind(read([s EXCEPT !.r.segments = MapAdd(@, old[1], -1)],
                   old[1], old[2], key, FALSE),
              LAMBDA s3 :
                  IF Failed(s3) THEN s3
                  ELSE [s3 EXCEPT !.r.compact = MapAdd(@, old[1], s3.ret)])

\* one frame of _update_index; i is its position in frames
update_frame(s, segment, frames, i) ==
    IF frames[i].tag = "PUT"
    THEN update_put(s, segment, frames[i].key, OffsetOf(frames, i), FrameSize(frames[i]))
    ELSE IF frames[i].tag = "DELETE" /\ frames[i].key \in DOMAIN s.r.index.m
    THEN update_delete([s EXCEPT !.r.index.m = MapDel(@, frames[i].key)],
                       frames[i].key, s.r.index.m[frames[i].key])
    ELSE s

RECURSIVE update_frames(_, _, _, _, _)
update_frames(s, segment, frames, i, n) ==
    IF Failed(s) \/ i > n THEN s
    ELSE update_frames(update_frame(s, segment, frames, i), segment, frames, i + 1, n)

\* the end of _update_index for a segment whose iter_objects yielded n frames
update_done(s, segment, frames, n) ==
    IF Failed(s) THEN s
    ELSE IF n < Len(frames) THEN Raise(s, "IntegrityError")
    ELSE IF s.r.segments[segment] # 0 THEN s
    ELSE IF segment_exists(s, segment)
         THEN [s EXCEPT !.r.compact = MapAdd(@, segment, segment_size(s, segment))]
         ELSE Raise(s, "FileNotFoundError")

\* Repository._update_index(segment, self.io.iter_objects(segment))
update_index(s, segment) ==
    IF Failed(s) THEN s
    ELSE IF s.r.index.none THEN Raise(s, "TypeError")
    ELSE Bind(get_fd([s EXCEPT !.r.segments = MapSet(@, segment, 0)], segment), LAMBDA s1 :
             IF Failed(s1) THEN s1
             ELSE update_done(update_frames(s1, segment, FdFrames(s1, segment), 1,
                                            GoodPrefix(FdFrames(s1, segment), 1)),
                              segment, FdFrames(s1, segment),
                              GoodPrefix(FdFrames(s1, segment), 1)))

\* the directory after the "remove old auxiliary files" loop got as far as
\* unlinking the files in gone (os.listdir gives no order)
AuxRemoved(d, transaction_id, goneIdx, goneHints, goneTmp) ==
    [d EXCEPT !.idxf = [n \in (DOMAIN d.idxf) \ goneIdx |-> d.idxf[n]],
              !.hintf = [n \in (DOMAIN d.hintf) \ goneHints |-> d.hintf[n]],
              !.tmpf = @ \ goneTmp,
              !.bad = @ \ (({"index"} \X goneIdx) \cup ({"hints"} \X goneHints))]

\* os.unlink of index.<n> and of hints.<n>
unlink_index(s, n) == Snap([s EXCEPT !.d = AuxRemoved(s.d, n, {n}, {}, {})])

unlink_hints(s, n) == Snap([s EXCEPT !.d = AuxRemoved(s.d, n, {}, {n}, {})])

\* write_hints as it must not be: the hints are written, the rename is left out
write_hints_unrenamed(s, transaction_id) ==
    Snap([s EXCEPT !.d.tmpf = @ \cup {"hints.tmp"}])

\* write_index: hints.tmp is written and renamed to hints.<transaction_id>
write_hints(s, transaction_id) ==
    Snap([Snap([s EXCEPT !.d.tmpf = @ \cup {"hints.tmp"}])
          EXCEPT !.d.tmpf = @ \ {"hints.tmp"},
                 !.d.hintf = MapSet(@, transaction_id,
                                    [segments |-> s.r.segments, compact |-> s.r.compact]),
                 !.d.bad = @ \ {<<"hints", transaction_id>>}])

\* write_index: index.tmp is written and renamed to index.<transaction_id>
write_snapshot(s, transaction_id) ==
    Snap([Snap([s EXCEPT !.d.tmpf = @ \cup {"index.tmp"}])
          EXCEPT !.d.tmpf = @ \ {"index.tmp"},
                 !.d.idxf = MapSet(@, transaction_id, s.r.index.m),
                 !.d.bad = @ \ {<<"index", transaction_id>>}])

\* remove_old_aux as it must not be: the old auxiliary files stay
keep_old_aux(s, transaction_id) == [s EXCEPT !.r.index = NoneIndex]

\* write_index: the other index.* and hints.* files are unlinked, in any order
remove_old_aux(s, transaction_id) ==
    Record([s EXCEPT !.d = AuxRemoved(s.d, transaction_id,
                                      (DOMAIN s.d.idxf) \ {transaction_id},
                                      (DOMAIN s.d.hintf) \ {transaction_id}, s.d.tmpf),
                     !.r.index = NoneIndex],
           IF s.rec
           THEN {[disk |-> DiskView(AuxRemoved(s.d, transaction_id, gi, gh, gt)),
                  durable |-> s.durable] :
                 gi \in SUBSET ((DOMAIN s.d.idxf) \ {transaction_id}),
                 gh \in SUBSET ((DOMAIN s.d.hintf) \ {transaction_id}),
                 gt \in SUBSET s.d.tmpf}
           ELSE {})

write_index(s) ==
    IF Failed(s) THEN s
    ELSE IF ~s.r.hset THEN Raise(s, "AttributeError")
    ELSE Bind(get_segments_transaction_id(s), LAMBDA s1 :
             IF Failed(s1) THEN s1
             ELSE IF s1.ret = -1 THEN Raise(s1, "TypeError")
             ELSE IF s1.r.index.none THEN Raise(write_hints(s1, s1.ret), "AttributeError")
             ELSE remove_old_aux(write_snapshot(write_hints(s1, s1.ret), s1.ret), s1.ret))

\* complete_xfer's loop over unused: "assert self.segments.pop(segment) == 0",
\* delete_segment, "del self.compact[segment]"
RECURSIVE drop_unused(_, _)
drop_unused(s, i) ==
    IF Failed(s) \/ i > Len(s.unused) THEN s
    ELSE IF s.unused[i] \notin DOMAIN s.r.segments THEN Raise(s, "KeyError")
    ELSE IF s.r.segments[s.unused[i]] # 0
         THEN Raise([s EXCEPT !.r.segments = MapDel(@, s.unused[i])], "AssertionError")
    ELSE IF s.unused[i] \notin DOMAIN s.r.compact
         THEN Raise(delete_segment([s EXCEPT !.r.segments = MapDel(@, s.unused[i])],
                                   s.unused[i]), "KeyError")
    ELSE drop_unused([delete_segment([s EXCEPT !.r.segments = MapDel(@, s.unused[i])],
                                     s.unused[i])
                      EXCEPT !.r.compact = MapDel(@, s.unused[i])], i + 1)

\* complete_xfer as it must not be: the sources are dropped before the copies
\* are committed
drop_before_commit(s) ==
    Bind(write_commit(drop_unused(s, 1)), LAMBDA s1 :
        IF Failed(s1) THEN s1 ELSE [s1 EXCEPT !.unused = <<>>])

\* complete_xfer of compact_segments: commit the copies, then drop the sources
complete_xfer(s) ==
    Bind(drop_unused(write_commit(s), 1), LAMBDA s1 :
        IF Failed(s1) THEN s1 ELSE [s1 EXCEPT !.unused = <<>>])

\* "except LoggedIO.SegmentFull: complete_xfer()", then the write again
retry_put(w, key, data) ==
    IF w.err = "SegmentFull"
    THEN write_put(complete_xfer([w EXCEPT !.err = "ok"]), key, data, FALSE)
    ELSE w

retry_delete(w, key) ==
    IF w.err = "SegmentFull"
    THEN write_delete(complete_xfer([w EXCEPT !.err = "ok"]), key, FALSE)
    ELSE w

\* the index and the live counts after the PUT of key was copied from segment
moved(s, segment, key) ==
    IF Failed(s) THEN s
    ELSE [s EXCEPT !.r.index.m = MapSet(@, key, s.ret),
                   !.r.segments = MapAdd(MapAdd(@, s.ret[1], 1), segment, -1)]

\* one frame of the segment that compact_segments is scanning
compact_frame(s, segment, frames, i, save_space, index_transaction_id) ==
    IF frames[i].tag = "PUT" THEN
        IF s.r.index.none THEN Raise(s, "AttributeError")
        ELSE IF MapGet(s.r.index.m, frames[i].key, <<-1, -1>>)
                # <<segment, OffsetOf(frames, i)>>
             THEN s
        ELSE moved(retry_put(write_put(s, frames[i].key, frames[i].val, save_space),
                             frames[i].key, frames[i].val),
                   segment, frames[i].key)
    ELSE IF frames[i].tag = "DELETE"
            /\ (index_transaction_id = -1 \/ segment > index_transaction_id)
    THEN retry_delete(write_delete(s, frames[i].key, save_space), frames[i].key)
    ELSE s

RECURSIVE compact_frames(_, _, _, _, _, _, _)
compact_frames(s, segment, frames, i, n, save_space, index_transaction_id) ==
    IF Failed(s) \/ i > n THEN s
    ELSE compact_frames(compact_frame(s, segment, frames, i, save_space,
                                      index_transaction_id),
                        segment, frames, i + 1, n, save_space, index_transaction_id)

\* the size heuristic: segment_size > 0.2 * max_segment_size and
\* freeable_space < 0.15 * segment_size
NotWorthCompacting(size, freeable_space) ==
    5 * size > MaxSegmentSize /\ 20 * freeable_space < 3 * size

\* the segment was scanned (n frames were yielded): "assert segments[segment] == 0"
\* and "unused.append(segment)"
compacted(s, segment, frames, n) ==
    IF Failed(s) THEN s
    ELSE IF n < Len(frames) THEN Raise(s, "IntegrityError")
    ELSE IF segment \notin DOMAIN s.r.segments THEN Raise(s, "KeyError")
    ELSE IF s.r.segments[segment] # 0 THEN Raise(s, "AssertionError")
    ELSE [s EXCEPT !.unused = Append(@, segment)]

\* the body of compact_segments' loop for one entry of sorted(self.compact.items())
compact_segment(s, segment, freeable_space, save_space, index_transaction_id) ==
    IF ~segment_exists(s, segment) THEN [s EXCEPT !.r.compact = MapDel(@, segment)]
    ELSE IF NotWorthCompacting(segment_size(s, segment), freeable_space) THEN s
    ELSE Bind(get_fd([s EXCEPT !.r.segments =
                         IF segment \in DOMAIN @ THEN @ ELSE MapSet(@, segment, 0)],
                     segment),
              LAMBDA s1 :
                  IF Failed(s1) THEN s1
                  ELSE compacted(compact_frames(s1, segment, FdFrames(s1, segment), 1,
                                                GoodPrefix(FdFrames(s1, segment), 1),
                                                save_space, index_transaction_id),
                                 segment, FdFrames(s1, segment),
                                 GoodPrefix(FdFrames(s1, segment), 1)))

RECURSIVE compact_loop(_, _, _, _, _, _)
compact_loop(s, order, items, i, save_space, index_transaction_id) ==
    IF Failed(s) \/ i > Len(order) THEN s
    ELSE compact_loop(compact_segment(s, order[i], items[order[i]], save_space,
                                      index_transaction_id),
                      order, items, i + 1, save_space, index_transaction_id)

compact_segments(s, save_space) ==
    IF Failed(s) THEN s
    ELSE IF ~s.r.hset THEN Raise(s, "AttributeError")
    ELSE IF DOMAIN s.r.compact = {} THEN s
    ELSE complete_xfer(compact_loop([s EXCEPT !.unused = <<>>],
                                    SortedSeq(DOMAIN s.r.compact), s.r.compact, 1,
                                    save_space, get_index_transaction_id(s)))

RECURSIVE open_index(_, _, _)
RECURSIVE prepare_txn(_, _, _)
RECURSIVE check_transaction(_)
RECURSIVE replay_segments(_, _, _)
RECURSIVE commit(_, _)

\* ret: the index transaction id after check_transaction
get_transaction_id(s) ==
    Bind(check_transaction(s), LAMBDA s1 :
        IF Failed(s1) THEN s1 ELSE Return(s1, get_index_transaction_id(s1)))

\* open_index after the unreadable file is unlinked, auto_recover:
\* prepare_txn(get_transaction_id()); commit(); open_index(get_transaction_id())
recover_index(s) ==
    Bind(get_transaction_id(s), LAMBDA s1 :
        IF Failed(s1) THEN s1
        ELSE Bind(get_transaction_id(commit(prepare_txn(s1, s1.ret, TRUE), FALSE)),
                  LAMBDA s2 : IF Failed(s2) THEN s2 ELSE open_index(s2, s2.ret, TRUE)))

\* ret: the NSIndex read from index.<transaction_id> (-1: a new, empty one)
open_index(s, transaction_id, auto_recover) ==
    IF Failed(s) THEN s
    ELSE IF transaction_id = -1 THEN Return(s, NSIndex(EmptyMap))
    ELSE IF transaction_id \notin DOMAIN s.d.idxf
         THEN \* hashindex_read failed, and there is no file that os.unlink could remove
              Raise(s, "InternalOSError")
    ELSE IF <<"index", transaction_id>> \notin s.d.bad
         THEN Return(s, NSIndex(s.d.idxf[transaction_id]))
    ELSE IF auto_recover THEN recover_index(unlink_index(s, transaction_id))
    ELSE Raise(unlink_index(s, transaction_id), "RuntimeError")

\* prepare_txn's "except RuntimeError: self.check_transaction()" and second open_index
reopen_index(o, transaction_id) ==
    IF o.err # "RuntimeError" THEN o
    ELSE open_index(check_transaction([o EXCEPT !.err = "ok"]), transaction_id, FALSE)

\* reconcile that replays onto the snapshot also when it is newer than the segments
reconcile_from_snapshot(s, index_transaction_id, segments_transaction_id) ==
    IF Failed(s) THEN s
    ELSE IF index_transaction_id # -1 /\ segments_transaction_id = -1
         THEN Raise(s, "CheckNeeded")
    ELSE IF index_transaction_id # segments_transaction_id
         THEN replay_segments(s, index_transaction_id, segments_transaction_id)
    ELSE s

\* reconcile without the CheckNeeded case
reconcile_always_replays(s, index_transaction_id, segments_transaction_id) ==
    IF Failed(s) \/ index_transaction_id = segments_transaction_id THEN s
    ELSE replay_segments(s,
           IF index_transaction_id # -1 /\ index_transaction_id > segments_transaction_id
           THEN -1 ELSE index_transaction_id,
           segments_transaction_id)

\* the index ids compared with the segments' id s.ret, as check_transaction does
reconcile(s, index_transaction_id, segments_transaction_id) ==
    IF Failed(s) THEN s
    ELSE IF index_transaction_id # -1 /\ segments_transaction_id = -1
         THEN Raise(s, "CheckNeeded")
    ELSE IF index_transaction_id # segments_transaction_id
         THEN replay_segments(s,
                IF index_transaction_id # -1 /\ index_transaction_id > segments_transaction_id
                THEN -1 ELSE index_transaction_id,
                segments_transaction_id)
    ELSE s

check_transaction(s) ==
    IF Failed(s) THEN s
    ELSE Bind(get_segments_transaction_id(s), LAMBDA s1 :
             reconcile(s1, get_index_transaction_id(s), s1.ret))

\* "self.index = self.open_index(transaction_id, False)"
set_index(o) == IF Failed(o) THEN o ELSE [o EXCEPT !.r.index = o.ret]

\* prepare_txn from "if transaction_id is None" on; s: after the index is in place
load_hints(s, transaction_id, do_cleanup) ==
    IF Failed(s) THEN s
    ELSE IF transaction_id = -1
         THEN [s EXCEPT !.r.segments = EmptyMap, !.r.compact = EmptyMap, !.r.hset = TRUE]
    ELSE Bind(IF do_cleanup THEN cleanup(s, transaction_id) ELSE s, LAMBDA s2 :
             IF transaction_id \notin DOMAIN s2.d.hintf
                \/ <<"hints", transaction_id>> \in s2.d.bad
             THEN \* hints file missing or corrupted (then unlinked): index must
                  \* exist at this point
                  IF transaction_id \notin DOMAIN s2.d.idxf
                  THEN Raise(unlink_hints(s2, transaction_id), "FileNotFoundError")
                  ELSE prepare_txn(
                         check_transaction(
                           unlink_index(unlink_hints(s2, transaction_id), transaction_id)),
                         transaction_id, TRUE)
             ELSE [s2 EXCEPT !.r.segments = s2.d.hintf[transaction_id].segments,
                             !.r.compact = s2.d.hintf[transaction_id].compact,
                             !.r.hset = TRUE])

prepare_txn(s, transaction_id, do_cleanup) ==
    IF Failed(s) THEN s
    ELSE load_hints(IF NotIndex(s.r.index) \/ transaction_id = -1
                    THEN set_index(reopen_index(open_index([s EXCEPT !.r.active = TRUE],
                                                           transaction_id, FALSE),
                                                transaction_id))
                    ELSE [s EXCEPT !.r.active = TRUE],
                    transaction_id, do_cleanup)

RECURSIVE replay_loop(_, _, _, _, _)
replay_loop(s, order, i, index_transaction_id, segments_transaction_id) ==
    IF Failed(s) \/ i > Len(order) THEN s
    ELSE IF index_transaction_id # -1 /\ order[i] <= index_transaction_id
         THEN replay_loop(s, order, i + 1, index_transaction_id, segments_transaction_id)
    ELSE IF order[i] > segments_transaction_id THEN s
    ELSE replay_loop(update_index(s, order[i]), order, i + 1,
                     index_transaction_id, segments_transaction_id)

replay_segments(s, index_transaction_id, segments_transaction_id) ==
    Bind(prepare_txn(s, index_transaction_id, FALSE), LAMBDA s1 :
        IF Failed(s1) THEN s1
        ELSE rollback(write_index(replay_loop(s1, segment_iterator(s1), 1,
                                              index_transaction_id,
                                              segments_transaction_id))))

\* from here on a kill leaves a directory that holds the transaction's COMMIT
MarkDurable(s) ==
    IF Failed(s) THEN s
    ELSE IF s.rec
    THEN [s EXCEPT !.durable = TRUE,
                   !.trace = (@ \ {[disk |-> DiskView(s.d), durable |-> FALSE]})
                             \cup {[disk |-> DiskView(s.d), durable |-> TRUE]}]
    ELSE [s EXCEPT !.durable = TRUE]

\* commit as it must not be in append-only mode: compaction runs in every mode
compact_in_every_mode(s, save_space) ==
    IF Failed(s) THEN s ELSE compact_segments(s, save_space)

\* "if not self.append_only: self.compact_segments(save_space=save_space)"
compact_unless_append_only(s, save_space) ==
    IF Failed(s) \/ s.r.append_only THEN s ELSE compact_segments(s, save_space)

commit(s, save_space) ==
    Bind(write_index(compact_unless_append_only(MarkDurable(write_commit(s)), save_space)),
         LAMBDA s4 : IF Failed(s4) THEN s4 ELSE rollback(s4))

\* "if not self.index: self.index = self.open_index(self.get_transaction_id())"
load_index(s) ==
    IF Failed(s) \/ ~NotIndex(s.r.index) THEN s
    ELSE Bind(get_transaction_id(s), LAMBDA s1 :
             IF Failed(s1) THEN s1 ELSE set_index(open_index(s1, s1.ret, TRUE)))

len(s) ==
    Bind(load_index(s), LAMBDA s1 :
        IF Failed(s1) THEN s1 ELSE Return(s1, Cardinality(DOMAIN s1.r.index.m)))

contains(s, id) ==
    Bind(load_index(s), LAMBDA s1 :
        IF Failed(s1) THEN s1 ELSE Return(s1, id \in DOMAIN s1.r.index.m))

list(s) ==
    Bind(load_index(s), LAMBDA s1 :
        IF Failed(s1) THEN s1 ELSE Return(s1, DOMAIN s1.r.index.m))

get(s, id) ==
    Bind(load_index(s), LAMBDA s1 :
        IF Failed(s1) THEN s1
        ELSE IF id \notin DOMAIN s1.r.index.m THEN Raise(s1, "ObjectNotFound")
        ELSE read(s1, s1.r.index.m[id][1], s1.r.index.m[id][2], id, TRUE))

\* "if not self._active_txn: self.prepare_txn(self.get_transaction_id())"
begin_txn(s) ==
    IF Failed(s) \/ s.r.active THEN s
    ELSE Bind(get_transaction_id(s), LAMBDA s1 :
             IF Failed(s1) THEN s1 ELSE prepare_txn(s1, s1.ret, TRUE))

\* "self.compact[segment] += size" with the size that io.read returned, then the
\* DELETE is logged
log_delete(s, id, old) ==
    IF Failed(s) THEN s
    ELSE write_delete([s EXCEPT !.r.compact = MapAdd(@, old[1], s.ret)], id, FALSE)

\* "self.compact[segment] += size; self.segments.setdefault(segment, 0)" for the
\* <<segment, size>> that write_delete returned
count_delete(s) ==
    IF Failed(s) THEN s
    ELSE [s EXCEPT !.r.compact = MapAdd(@, s.ret[1], s.ret[2]),
                   !.r.segments = IF s.ret[1] \in DOMAIN @ THEN @
                                  ELSE MapSet(@, s.ret[1], 0)]

\* the "key already in the index" part shared by put and delete: account for the
\* superseded PUT at old = <<segment, offset>> and log a DELETE
supersede(s, id, old) ==
    IF old[1] \notin DOMAIN s.r.segments THEN Raise(s, "KeyError")
    ELSE count_delete(log_delete(read([s EXCEPT !.r.segments = MapAdd(@, old[1], -1)],
                                      old[1], old[2], id, FALSE),
                                 id, old))

\* "self.segments[segment] += 1; self.index[id] = segment, offset" for the
\* <<segment, offset>> that write_put returned
count_put(s, id) ==
    IF Failed(s) THEN s
    ELSE [s EXCEPT !.r.segments = MapAdd(@, s.ret[1], 1),
                   !.r.index.m = MapSet(@, id, s.ret)]

put(s, id, data) ==
    Bind(begin_txn(s), LAMBDA s1 :
        IF Failed(s1) THEN s1
        ELSE IF s1.r.index.none THEN Raise(s1, "TypeError")
        ELSE count_put(write_put(IF id \in DOMAIN s1.r.index.m
                                 THEN supersede(s1, id, s1.r.index.m[id]) ELSE s1,
                                 id, data, FALSE),
                       id))

\* delete as it must not be: the DELETE frame is logged before the key is looked up
delete_logged_first(s, id) ==
    Bind(begin_txn(s), LAMBDA s1 :
        IF Failed(s1) THEN s1
        ELSE IF s1.r.index.none THEN Raise(s1, "TypeError")
        ELSE IF id \notin DOMAIN s1.r.index.m
             THEN Raise(write_delete(s1, id, FALSE), "ObjectNotFound")
        ELSE supersede([s1 EXCEPT !.r.index.m = MapDel(@, id)], id, s1.r.index.m[id]))

delete(s, id) ==
    Bind(begin_txn(s), LAMBDA s1 :
        IF Failed(s1) THEN s1
        ELSE IF s1.r.index.none THEN Raise(s1, "TypeError")
        ELSE IF id \notin DOMAIN s1.r.index.m THEN Raise(s1, "ObjectNotFound")
        ELSE supersede([s1 EXCEPT !.r.index.m = MapDel(@, id)], id, s1.r.index.m[id]))

\* check's report_error: "error_found = True"
report_error(s) == [s EXCEPT !.error_found = TRUE]

\* LoggedIO.recover_segment: the fd leaves the cache, the file is renamed to
\* <segment>.beforerecover (a name segment_iterator skips) and a new file of that
\* name gets MAGIC and every frame of the old file whose CRC matches
recover_segment(s, segment) ==
    Snap([s EXCEPT !.io.fds = MapDel(@, segment),
                   !.d.ino = MapSet(@, FreshInode(s.d),
                                    SelectSeq(s.d.ino[s.d.dir[segment]],
                                              LAMBDA f : f.ok)),
                   !.d.dir = MapSet(@, segment, FreshInode(s.d))])

\* "self._update_index(segment, objects, report_error)" for the objects of a file
\* that iter_objects read to its end
check_objects(s, segment) ==
    IF Failed(s) THEN s
    ELSE update_done(update_frames([s EXCEPT !.r.segments = MapSet(@, segment, 0)],
                                   segment, FdFrames(s, segment), 1,
                                   Len(FdFrames(s, segment))),
                     segment, FdFrames(s, segment), Len(FdFrames(s, segment)))

\* "objects = []; self._update_index(segment, objects, report_error)"
check_no_objects(s, segment) ==
    update_done([s EXCEPT !.r.segments = MapSet(@, segment, 0)], segment, <<>>, 0)

\* one round of check's loop over the segments
check_segment(s, segment, repair) ==
    Bind(get_fd(s, segment), LAMBDA s1 :
        IF Failed(s1) THEN s1
        ELSE IF GoodPrefix(FdFrames(s1, segment), 1) = Len(FdFrames(s1, segment))
             THEN check_objects(s1, segment)
        ELSE IF repair
             THEN Bind(get_fd(recover_segment(report_error(s1), segment), segment),
                       LAMBDA s2 : check_objects(s2, segment))
        ELSE check_no_objects(report_error(s1), segment))

RECURSIVE check_loop(_, _, _, _, _)
check_loop(s, order, i, transaction_id, repair) ==
    IF Failed(s) \/ i > Len(order) THEN s
    ELSE check_loop(IF order[i] > transaction_id THEN s
                    ELSE check_segment(s, order[i], repair),
                    order, i + 1, transaction_id, repair)

\* check's try block; ret = <<transaction_id, current_index>>
check_found(s) ==
    Bind(get_transaction_id(s), LAMBDA s1 :
        IF Failed(s1) THEN s1
        ELSE Bind(open_index(s1, s1.ret, TRUE), LAMBDA s2 :
                 IF Failed(s2) THEN s2 ELSE Return(s2, <<s1.ret, s2.ret>>)))

\* "except Exception: transaction_id = self.io.get_segments_transaction_id();
\* current_index = None"
check_fallback(o) ==
    IF ~Failed(o) THEN o
    ELSE Bind(get_segments_transaction_id([o EXCEPT !.err = "ok"]), LAMBDA s1 :
             IF Failed(s1) THEN s1 ELSE Return(s1, <<s1.ret, NoneIndex>>))

\* the two "if transaction_id is None" fallbacks
check_transaction_id(s, transaction_id) ==
    IF transaction_id # -1 THEN transaction_id
    ELSE IF get_index_transaction_id(s) # -1 THEN get_index_transaction_id(s)
    ELSE get_latest_segment(s)

\* "if repair: self.io.cleanup(transaction_id)"; cleanup adds 1 to transaction_id
check_cleanup(s, transaction_id, repair) ==
    IF Failed(s) \/ ~repair THEN s
    ELSE IF transaction_id = -1 THEN Raise(s, "TypeError")
    ELSE cleanup(s, transaction_id)

\* "if repair and segments_transaction_id is None": a commit tag is added
add_commit_tag(s, transaction_id, repair, segments_transaction_id) ==
    IF Failed(s) \/ ~repair \/ segments_transaction_id # -1 THEN s
    ELSE write_commit(report_error([s EXCEPT !.io.segment = transaction_id + 1]))

\* "if current_index and not repair": the index found on disk against the rebuilt one
compare_index(s, current_index, repair) ==
    IF Failed(s) \/ repair \/ NotIndex(current_index) THEN s
    ELSE IF \/ Cardinality(DOMAIN current_index.m) # Cardinality(DOMAIN s.r.index.m)
            \/ \E key \in DOMAIN s.r.index.m :
                  \/ key \notin DOMAIN current_index.m
                  \/ current_index.m[key] # s.r.index.m[key]
         THEN report_error(s)
    ELSE s

\* "if repair: self.compact_segments(save_space=save_space); self.write_index()"
check_repair(s, repair, save_space) ==
    IF Failed(s) \/ ~repair THEN s ELSE write_index(compact_segments(s, save_space))

\* "self.rollback() ... return not error_found or repair"
check_end(s, repair) ==
    IF Failed(s) THEN s ELSE Return(rollback(s), ~s.error_found \/ repair)

\* check from "if repair: self.io.cleanup(transaction_id)" on
check_body(s, transaction_id, current_index, repair, save_space) ==
    Bind(get_segments_transaction_id(check_cleanup(s, transaction_id, repair)),
         LAMBDA s1 :
             check_end(
               check_repair(
                 compare_index(
                   add_commit_tag(
                     check_loop(prepare_txn(s1, -1, TRUE), segment_iterator(s1), 1,
                                transaction_id, repair),
                     transaction_id, repair, s1.ret),
                   current_index, repair),
                 repair, save_space),
               repair))

\* Repository.check
check(s, repair, save_space) ==
    IF Failed(s) THEN s
    ELSE IF s.r.append_only /\ repair THEN Raise(s, "ValueError")
    ELSE IF s.r.active THEN Raise(s, "AssertionError")
    ELSE Bind(check_fallback(check_found(s)), LAMBDA s1 :
             IF Failed(s1) THEN s1
             ELSE check_body(s1, check_transaction_id(s1, s1.ret[1]), s1.ret[2],
                             repair, save_space))


\* ------------------------------------------------------------ the system
VARIABLES
    disk,      \* the repository directory
    io,        \* the LoggedIO object of the open session
    repo,      \* the Repository object of the open session
    isopen,    \* a session is open
    committed, \* the key -> value map of the last durable commit (specification state)
    pending,   \* committed with the transaction's successful puts and deletes applied
    last,      \* the last call: [op, key, val, err, durable]
    txn,       \* the session's transaction (specification state): [puts, super, rb]
    count      \* calls so far: [mutations, commits, rollbacks, reads, crashes]

vars == <<disk, io, repo, isopen, committed, pending, last, txn, count>>

\* puts: key -> value of the transaction's puts that it has not deleted again,
\* super: the keys among them whose put replaced a value,
\* rb: the session has rolled back a transaction that was active
NoTxn == [puts |-> EmptyMap, super |-> {}, rb |-> FALSE]

\* a mutation with no transaction active begins a new one
TxnBase == IF repo.active THEN txn ELSE [txn EXCEPT !.puts = EmptyMap, !.super = {}]

\* bad: the index.<n> and hints.<n> files whose content cannot be parsed
EmptyDisk == [dir |-> EmptyMap, ino |-> EmptyMap, idxf |-> EmptyMap, hintf |-> EmptyMap,
              tmpf |-> {}, bad |-> {}]

\* the directory a new process finds: the files the names refer to
FromView(v) ==
    [dir |-> [n \in DOMAIN v.segs |-> n + 1],
     ino |-> [i \in {n + 1 : n \in DOMAIN v.segs} |-> v.segs[i - 1]],
     idxf |-> v.idxf, hintf |-> v.hintf, tmpf |-> v.tmpf, bad |-> v.bad]

Machine(d, i, r) ==
    [d |-> d, io |-> i, r |-> r, err |-> "ok", ret |-> 0, durable |-> FALSE,
     rec |-> FALSE, trace |-> {}, unused |-> <<>>, error_found |-> FALSE]

Cur == Machine(disk, io, repo)

\* the same machine, recording what a kill would leave at every write
Traced == [Cur EXCEPT !.rec = TRUE]

\* files that no name and no open fd refers to are gone
InUse(s) ==
    {s.d.dir[n] : n \in DOMAIN s.d.dir} \cup {s.io.fds[n] : n \in DOMAIN s.io.fds}
    \cup {s.io.wfd}

Gc(s) == [s.d EXCEPT !.ino = [i \in (DOMAIN @) \cap InUse(s) |-> @[i]]]

Call(op, key, val, s) == [op |-> op, key |-> key, val |-> val, err |-> s.err,
                          durable |-> s.durable]

\* a call returns (normally or with an exception) and leaves the machine in state s
Returns(s, op, key, val) ==
    /\ disk' = Gc(s)
    /\ io' = s.io
    /\ repo' = s.r
    /\ last' = Call(op, key, val, s)
    /\ UNCHANGED isopen

\* the process is killed during a call, after the write that left snap on disk
Killed(snap) ==
    /\ disk' = FromView(snap.disk)
    /\ io' = NewIO
    /\ repo' = NewRepo(repo.append_only)
    /\ isopen' = FALSE
    /\ committed' = IF snap.durable THEN pending ELSE committed
    /\ pending' = committed'
    /\ txn' = NoTxn
    /\ last' = [op |-> "crash", key |-> "", val |-> "", err |-> "ok",
                durable |-> snap.durable]

CanMutate == isopen /\ count.mutations < MaxMutations

CanCommit == isopen /\ count.commits < MaxCommits

CanRollback == isopen /\ count.rollbacks < MaxRollbacks

CanRead == isopen /\ count.reads < MaxReads

CanCrash == count.crashes < MaxCrashes

Init ==
    /\ disk = EmptyDisk
    /\ io = NewIO
    /\ repo = NewRepo(FALSE)
    /\ isopen = FALSE
    /\ committed = EmptyMap
    /\ pending = EmptyMap
    /\ txn = NoTxn
    /\ last = [op |-> "create", key |-> "", val |-> "", err |-> "ok", durable |-> FALSE]
    /\ count = [mutations |-> 0, commits |-> 0, rollbacks |-> 0, reads |-> 0, crashes |-> 0,
                faults |-> 0]

\* Repository.open: a new Repository and LoggedIO on the directory
Open ==
    /\ ~isopen
    /\ isopen' = TRUE
    /\ io' = NewIO
    /\ repo' = open(Machine(disk, NewIO, NewRepo(repo.append_only)), TRUE).r
    /\ last' = [op |-> "open", key |-> "", val |-> "", err |-> "ok", durable |-> FALSE]
    /\ txn' = NoTxn
    /\ UNCHANGED <<disk, committed, pending, count>>

\* Repository.close (or the process ends): the uncommitted state is dropped
Close ==
    /\ isopen
    /\ isopen' = FALSE
    /\ disk' = FromView(DiskView(disk))
    /\ io' = NewIO
    /\ repo' = NewRepo(repo.append_only)
    /\ pending' = committed
    /\ txn' = NoTxn
    /\ last' = [op |-> "close", key |-> "", val |-> "", err |-> "ok", durable |-> FALSE]
    /\ UNCHANGED <<committed, count>>

\* put(k, v) returns and leaves the machine in state s
PutReturns(s, k, v) ==
    /\ Returns(s, "put", k, v)
    /\ pending' = IF Failed(s) THEN pending ELSE MapSet(pending, k, v)
    /\ txn' = IF Failed(s) THEN TxnBase
              ELSE [TxnBase EXCEPT !.puts = MapSet(@, k, v),
                                   !.super = IF k \in DOMAIN pending THEN @ \cup {k} ELSE @]
    /\ UNCHANGED committed

Put(k, v) ==
    /\ CanMutate
    /\ count' = [count EXCEPT !.mutations = @ + 1]
    /\ PutReturns(put(Cur, k, v), k, v)

\* delete(k) returns and leaves the machine in state s
DeleteReturns(s, k) ==
    /\ Returns(s, "delete", k, "")
    /\ pending' = IF Failed(s) THEN pending ELSE MapDel(pending, k)
    /\ txn' = IF Failed(s) THEN TxnBase
              ELSE [TxnBase EXCEPT !.puts = MapDel(@, k), !.super = @ \ {k}]
    /\ UNCHANGED committed

Delete(k) ==
    /\ CanMutate
    /\ count' = [count EXCEPT !.mutations = @ + 1]
    /\ DeleteReturns(delete(Cur, k), k)

\* commit returns and leaves the machine in state s
CommitReturns(s) ==
    /\ Returns(s, "commit", "", "")
    /\ committed' = IF s.durable THEN pending ELSE committed
    /\ UNCHANGED <<pending, txn>>

\* commit is called to end a transaction, or again right after a commit
Commit(save_space) ==
    /\ CanCommit
    /\ count' = [count EXCEPT !.commits = @ + 1]
    /\ repo.active \/ (last.op = "commit" /\ last.err = "ok")
    /\ CommitReturns(commit(Cur, save_space))

Rollback ==
    /\ CanRollback
    /\ count' = [count EXCEPT !.rollbacks = @ + 1]
    /\ Returns(rollback(Cur), "rollback", "", "")
    /\ pending' = committed
    /\ txn' = [puts |-> EmptyMap, super |-> {}, rb |-> txn.rb \/ repo.active]
    /\ UNCHANGED committed

Get(k) ==
    /\ CanRead
    /\ count' = [count EXCEPT !.reads = @ + 1]
    /\ Returns(get(Cur, k), "read", "", "")
    /\ UNCHANGED <<committed, pending, txn>>

Contains(k) ==
    /\ CanRead
    /\ count' = [count EXCEPT !.reads = @ + 1]
    /\ Returns(contains(Cur, k), "read", "", "")
    /\ UNCHANGED <<committed, pending, txn>>

Length ==
    /\ CanRead
    /\ count' = [count EXCEPT !.reads = @ + 1]
    /\ Returns(len(Cur), "read", "", "")
    /\ UNCHANGED <<committed, pending, txn>>

\* Repository.check, counted with the reads; last.key is the mode and last.val the
\* value returned
Check(repair, save_space) ==
    /\ CanRead
    /\ count' = [count EXCEPT !.reads = @ + 1]
    /\ Bind(check(Cur, repair, save_space), LAMBDA s :
            /\ Returns(s, "check", IF repair THEN "repair" ELSE "verify",
                       IF Failed(s) THEN "" ELSE IF s.ret THEN "true" ELSE "false")
            /\ pending' = IF Failed(s) THEN pending ELSE committed)
    /\ UNCHANGED <<committed, txn>>

\* the process is killed inside put, delete or commit
CrashInPut(k, v) ==
    /\ CanMutate
    /\ CanCrash
    /\ count' = [count EXCEPT !.mutations = @ + 1, !.crashes = @ + 1]
    /\ \E snap \in put(Traced, k, v).trace : Killed(snap)

CrashInDelete(k) ==
    /\ CanMutate
    /\ CanCrash
    /\ count' = [count EXCEPT !.mutations = @ + 1, !.crashes = @ + 1]
    /\ \E snap \in delete(Traced, k).trace : Killed(snap)

CrashInCommit(save_space) ==
    /\ CanCommit
    /\ CanCrash
    /\ count' = [count EXCEPT !.commits = @ + 1, !.crashes = @ + 1]
    /\ repo.active
    /\ \E snap \in commit(Traced, save_space).trace : Killed(snap)

Next ==
    \/ Open
    \/ Close
    \/ \E k \in Keys, v \in Values : Put(k, v)
    \/ \E k \in Keys : Delete(k)
    \/ \E save_space \in BOOLEAN : Commit(save_space)
    \/ Rollback
    \/ \E k \in Keys : Get(k)
    \/ \E k \in Keys : Contains(k)
    \/ Length
    \/ \E k \in Keys, v \in Values : CrashInPut(k, v)
    \/ \E k \in Keys : CrashInDelete(k)
    \/ \E save_space \in BOOLEAN : CrashInCommit(save_space)

Spec == Init /\ [][Next]_vars

\* one process that is never killed and does not close the repository: longer
\* transactions than Spec reaches
\* the keys are interchangeable: the first one written is called k1
FirstKey(k) == count.mutations > 0 \/ k = "k1"

SessionPut(k, v) ==
    /\ isopen
    /\ count.mutations < MaxSessionMutations
    /\ FirstKey(k)
    /\ count' = [count EXCEPT !.mutations = @ + 1]
    /\ PutReturns(put(Cur, k, v), k, v)

SessionDelete(k) ==
    /\ isopen
    /\ count.mutations < MaxSessionMutations
    /\ FirstKey(k)
    /\ count' = [count EXCEPT !.mutations = @ + 1]
    /\ DeleteReturns(delete(Cur, k), k)

SessionNext ==
    \/ Open
    \/ \E k \in Keys, v \in Values : SessionPut(k, v)
    \/ \E k \in Keys : SessionDelete(k)
    \/ \E save_space \in BOOLEAN : Commit(save_space)
    \/ Rollback
    \/ \E k \in Keys : Get(k)
    \/ \E k \in Keys : Contains(k)
    \/ Length

SessionSpec == Init /\ [][SessionNext]_vars

\* damage to the files of a closed repository, done from outside the program
CanFault == ~isopen /\ count.faults < MaxFaults

Damaged(d, what) ==
    /\ CanFault
    /\ count' = [count EXCEPT !.faults = @ + 1]
    /\ disk' = d
    /\ last' = [op |-> "fault", key |-> "", val |-> "", err |-> what, durable |-> FALSE]
    /\ UNCHANGED <<io, repo, isopen, committed, pending, txn>>

\* hints.<n> is gone
LoseHints(n) == n \in DOMAIN disk.hintf /\ Damaged(AuxRemoved(disk, n, {}, {n}, {}), "hints lost")

\* msgpack cannot unpack hints.<n>
CorruptHints(n) ==
    n \in DOMAIN disk.hintf /\ Damaged([disk EXCEPT !.bad = @ \cup {<<"hints", n>>}], "hints bad")

\* hashindex_read fails on index.<n>
CorruptIndex(n) ==
    n \in DOMAIN disk.idxf /\ Damaged([disk EXCEPT !.bad = @ \cup {<<"index", n>>}], "index bad")

\* the segment files from n on are gone
LoseSegments(n) ==
    n \in DOMAIN disk.dir /\ Damaged(FromView(DiskView(Unlinked(disk, n))), "segments lost")

FaultNext ==
    \/ Open
    \/ Close
    \/ \E k \in Keys, v \in Values : Put(k, v)
    \/ \E k \in Keys : Delete(k)
    \/ \E save_space \in BOOLEAN : Commit(save_space)
    \/ \E k \in Keys : Get(k)
    \/ \E k \in Keys : Contains(k)
    \/ Length
    \/ \E save_space \in BOOLEAN : CrashInCommit(save_space)
    \/ \E n \in DOMAIN disk.hintf : LoseHints(n)
    \/ \E n \in DOMAIN disk.hintf : CorruptHints(n)
    \/ \E n \in DOMAIN disk.idxf : CorruptIndex(n)
    \/ \E n \in DOMAIN disk.dir : LoseSegments(n)

FaultSpec == Init /\ [][FaultNext]_vars

\* the config file no longer has a [repository] section of version 1
CorruptConfig ==
    /\ <<"config", 0>> \notin disk.bad
    /\ Damaged([disk EXCEPT !.bad = @ \cup {<<"config", 0>>}], "config bad")

\* "with Repository(path) as repository:" __enter__ calls open on a new object;
\* when open raises, __exit__ is not called (isopen: self.io is a LoggedIO)
Enter ==
    /\ ~isopen /\ ~repo.lock
    /\ Bind(open(Machine(disk, NewIO, NewRepo(repo.append_only)), TRUE), LAMBDA s :
            /\ isopen' = ~Failed(s)
            /\ repo' = s.r
            /\ io' = s.io
            /\ last' = Call("enter", "", "", s))
    /\ txn' = NoTxn
    /\ UNCHANGED <<disk, committed, pending, count>>

\* Repository.__exit__
exit(s, exc) == close(IF exc THEN rollback(s) ELSE s)

\* the body of the with statement ends, normally or (exc) with an exception
Exit(exc) ==
    /\ isopen
    /\ Bind(exit(Cur, exc), LAMBDA s :
            /\ isopen' = (isopen /\ s.r.lock)
            /\ repo' = [NewRepo(repo.append_only) EXCEPT !.lock = s.r.lock]
            /\ io' = s.io
            /\ disk' = FromView(DiskView(s.d)))
    /\ pending' = committed
    /\ txn' = NoTxn
    /\ last' = [op |-> "exit", key |-> "", val |-> "", err |-> IF exc THEN "exc" ELSE "ok",
                durable |-> FALSE]
    /\ UNCHANGED <<committed, count>>

\* Repository.__del__, whenever the object is collected: "if self.lock: self.close()"
Finalize ==
    /\ ~isopen /\ repo.lock
    /\ repo' = close(Cur).r
    /\ last' = [op |-> "del", key |-> "", val |-> "", err |-> "ok", durable |-> FALSE]
    /\ UNCHANGED <<disk, io, isopen, committed, pending, txn, count>>

ContextNext ==
    \/ Enter
    \/ \E exc \in BOOLEAN : Exit(exc)
    \/ \E k \in Keys, v \in Values : Put(k, v)
    \/ \E k \in Keys : Delete(k)
    \/ \E save_space \in BOOLEAN : Commit(save_space)
    \/ \E k \in Keys : Get(k)
    \/ CorruptConfig
    \/ Finalize

ContextSpec == Init /\ [][ContextNext]_vars

\* a repository created and always opened with append_only=True
AppendOnlyInit ==
    /\ disk = EmptyDisk
    /\ io = NewIO
    /\ repo = NewRepo(TRUE)
    /\ isopen = FALSE
    /\ committed = EmptyMap
    /\ pending = EmptyMap
    /\ txn = NoTxn
    /\ last = [op |-> "create", key |-> "", val |-> "", err |-> "ok", durable |-> FALSE]
    /\ count = [mutations |-> 0, commits |-> 0, rollbacks |-> 0, reads |-> 0, crashes |-> 0,
                faults |-> 0]

\* Repository.destroy: refused in append-only mode; otherwise the repository is
\* closed and its directory removed
\* (the call is counted with the reads)
Destroy ==
    /\ CanRead
    /\ count' = [count EXCEPT !.reads = @ + 1]
    /\ IF repo.append_only
       THEN /\ last' = [op |-> "destroy", key |-> "", val |-> "", err |-> "ValueError",
                        durable |-> FALSE]
            /\ UNCHANGED <<disk, io, repo, isopen, committed, pending, txn>>
       ELSE /\ disk' = EmptyDisk
            /\ io' = NewIO
            /\ repo' = NewRepo(repo.append_only)
            /\ isopen' = FALSE
            /\ committed' = EmptyMap
            /\ pending' = EmptyMap
            /\ txn' = NoTxn
            /\ last' = [op |-> "destroy", key |-> "", val |-> "", err |-> "ok",
                        durable |-> FALSE]

AppendOnlyNext ==
    \/ Open
    \/ Close
    \/ \E k \in Keys, v \in Values : Put(k, v)
    \/ \E k \in Keys : Delete(k)
    \/ \E save_space \in BOOLEAN : Commit(save_space)
    \/ \E repair \in BOOLEAN : Check(repair, FALSE)
    \/ \E save_space \in BOOLEAN : CrashInCommit(save_space)
    \/ Destroy

AppendOnlySpec == AppendOnlyInit /\ [][AppendOnlyNext]_vars

\* the data bytes of the PUT frame at position i of segment n no longer match
\* the frame's CRC
CorruptPut(n, i) ==
    /\ i \in 1..Len(Linked(disk)[n])
    /\ Linked(disk)[n][i].tag = "PUT" /\ Linked(disk)[n][i].ok
    /\ Damaged([disk EXCEPT !.ino[disk.dir[n]][i].ok = FALSE], "put bad")

MaxFrames == 4

\* a repository whose closed segment files get damaged and that is then checked
CheckNext ==
    \/ Open
    \/ Close
    \/ \E k \in Keys, v \in Values : Put(k, v)
    \/ \E k \in Keys : Delete(k)
    \/ \E save_space \in BOOLEAN : Commit(save_space)
    \/ \E n \in DOMAIN disk.dir, i \in 1..MaxFrames : CorruptPut(n, i)
    \/ \E repair, save_space \in BOOLEAN : Check(repair, save_space)

CheckSpec == Init /\ [][CheckNext]_vars

\* ------------------------------------------------------------- observers
\* what get(k) gives the caller: the value, or the name of the exception
GetResult(s, k) == LET g == get(s, k) IN IF Failed(g) THEN g.err ELSE g.ret

\* what get(k) gives on a repository that holds the map m
Expected(m, k) == IF k \in DOMAIN m THEN m[k] ELSE "ObjectNotFound"

\* contains, get and len on machine s report exactly the map m
ReadsAgree(s, m) ==
    /\ \A k \in Keys :
          /\ GetResult(s, k) = Expected(m, k)
          /\ LET c == contains(s, k) IN ~Failed(c) /\ c.ret = (k \in DOMAIN m)
    /\ LET n == len(s) IN ~Failed(n) /\ n.ret = Cardinality(DOMAIN m)

\* the value of the PUT frame of k that entry = <<segment, offset>> locates in
\* the segment file of that name, "missing" if there is no such frame
ValueAt(d, entry, k) ==
    IF entry[1] \notin DOMAIN d.dir THEN "missing"
    ELSE LET frames == Linked(d)[entry[1]]
             i == FrameIndexAt(frames, entry[2])
         IN IF i # 0 /\ frames[i].tag = "PUT" /\ frames[i].key = k /\ frames[i].ok
            THEN frames[i].val ELSE "missing"

\* the logical content of machine s: what each index entry locates on disk
Content(s) == [k \in DOMAIN s.r.index.m |-> ValueAt(s.d, s.r.index.m[k], k)]

\* the PUT frames of k in the segment files, as <<segment, position>>
PutFramesOf(d, k) ==
    UNION {{<<n, i>> : i \in {j \in 1..Len(Linked(d)[n]) :
                                 Linked(d)[n][j].tag = "PUT" /\ Linked(d)[n][j].key = k}} :
           n \in DOMAIN d.dir}

\* the index that replaying every segment file <= transaction_id, in order,
\* builds from an empty index with _update_index
Replayed(d, transaction_id) ==
    LET s0 == prepare_txn(Machine(FromView(DiskView(d)), NewIO, NewRepo(FALSE)), -1, FALSE)
    IN replay_loop(s0, segment_iterator(s0), 1, -1, transaction_id)

AfterCommit == isopen /\ last.op = "commit" /\ last.err = "ok"

AfterCrash == ~isopen /\ last.op = "crash"

\* the segment files above the last committed one that are still there, as they
\* were, after put(k, v) (the segment that put writes is a new or emptied file)
StaleTail(k, v) ==
    LET before == get_segments_transaction_id(Cur).ret
        s == put(Cur, k, v)
    IN {n \in (DOMAIN s.d.dir) \cap (DOMAIN disk.dir) :
           n > before /\ s.d.dir[n] = disk.dir[n] /\ n # s.io.segment}

\* ----------------------------------------------------------------- claims
\* C1: a kill after the transaction's COMMIT frame is completely written
\* (during compaction, inside complete_xfer, before, during or after
\* write_index): the reopened repository reports, through contains/get/len,
\* the previous commit's state with the transaction's puts and deletes applied.
C1_DurableAfterCommitFrame ==
    (AfterCrash /\ last.durable) => ReadsAgree(Cur, committed)

\* C2: a kill before the COMMIT frame is fully written: the reopened
\* repository reports exactly the state of the last commit, and the first
\* mutating operation after the reopen removes every segment file above the
\* last committed one.
C2_CrashBeforeCommitFrame ==
    (AfterCrash /\ ~last.durable) =>
        /\ ReadsAgree(Cur, committed)
        /\ \A k \in Keys, v \in Values :
              ~Failed(put(Cur, k, v)) /\ StaleTail(k, v) = {}

\* C3: after put(k, v) and a successful commit, get(k) returns v.
C3_PutCommitGet ==
    AfterCommit => \A k \in DOMAIN txn.puts : GetResult(Cur, k) = txn.puts[k]

\* C4: with no kill in the history, the persisted index.<txid> equals the index
\* that replaying every existing segment <= txid from an empty index builds:
\* the same keys, and the same (segment, offset) for each key.
C4_IndexEqualsReplay ==
    (count.crashes = 0 /\ DOMAIN disk.idxf # {}) =>
        LET transaction_id == get_index_transaction_id(Cur)
            s == Replayed(disk, transaction_id)
        IN ~Failed(s) /\ s.r.index.m = disk.idxf[transaction_id]

\* C5: compact_segments, as commit calls it with save_space false or true,
\* leaves the logical content unchanged: the index holds the same keys after it
\* as before it, and each entry locates, in an existing segment file, a PUT
\* frame of that key with the value the entry located before (an entry that
\* located no frame before still locates none). This holds also for a run that
\* ends with an exception.
C5_CompactionPreservesContent ==
    (isopen /\ repo.active /\ ~repo.index.none) =>
        \A save_space \in BOOLEAN :
            Content(compact_segments(write_commit(Cur), save_space))
                = Content(write_commit(Cur))

\* C6: a second commit directly after a successful commit is a no-op: it
\* returns without an exception, creates no segment, and leaves the index and
\* hints files and the transaction id as they were.
C6_SecondCommitNoOp ==
    (AfterCommit /\ ~repo.active) =>
        \A save_space \in BOOLEAN :
            LET s == commit(Cur, save_space)
            IN ~Failed(s) /\ DiskView(s.d) = DiskView(disk)

\* C7: after put(k, v1); put(k, v2); commit with compaction enabled, get(k)
\* returns v2 and exactly one PUT frame of k remains in the segment files.
C7_Supersession ==
    (AfterCommit /\ ~repo.append_only) =>
        \A k \in txn.super :
            /\ GetResult(Cur, k) = txn.puts[k]
            /\ Cardinality(PutFramesOf(disk, k)) = 1

\* C8: after rollback every read reflects exactly the state of the last
\* commit: nothing put or deleted since is visible, and every committed key
\* is readable with its committed value.
C8_RollbackRestoresCommitted ==
    (isopen /\ last.op = "rollback") => ReadsAgree(Cur, committed)

\* C9: a transaction begun after a rollback in the same session is a full
\* transaction: after its commit get(k) returns the value it put, the rolled
\* back keys are absent unless committed before, and the PUT frame that the
\* persisted index entry of k refers to is in the segment file of that id.
C9_TransactionAfterRollback ==
    (AfterCommit /\ txn.rb /\ ~repo.active) =>
        /\ \A k \in DOMAIN txn.puts :
              /\ GetResult(Cur, k) = txn.puts[k]
              /\ LET transaction_id == get_index_transaction_id(Cur)
                 IN /\ transaction_id # -1
                    /\ k \in DOMAIN disk.idxf[transaction_id]
                    /\ ValueAt(disk, disk.idxf[transaction_id][k], k) = txn.puts[k]
        /\ \A k \in Keys \ DOMAIN committed : GetResult(Cur, k) = "ObjectNotFound"

\* C10: inside a transaction reads see the transaction's own mutations: after
\* put(k, v) get(k) returns v; after delete(k) contains(k) is false, len() is
\* one less and get(k) raises ObjectNotFound, also when the index is now empty.
C10_ReadOwnWrites ==
    (isopen /\ repo.active /\ last.op \in {"put", "delete"} /\ last.err = "ok") =>
        ReadsAgree(Cur, pending)

\* every segment file of directory d2 is a file of d1 of that name with the same frames
NoFrameAppended(d1, d2) ==
    \A n \in DOMAIN d2.dir : n \in DOMAIN d1.dir /\ Linked(d2)[n] = Linked(d1)[n]

\* C11: delete(k) of a key that is not in the index (the transaction's index, or
\* the one that beginning a transaction loads) raises ObjectNotFound, appends no
\* frame to any segment file, and leaves index, segments and compact as they
\* are (as the beginning of the transaction loaded them).
C11_DeleteAbsentKey ==
    isopen =>
        \A k \in Keys :
            LET begun == begin_txn(Cur)
                s == delete(Cur, k)
            IN (~Failed(begun) /\ ~begun.r.index.none /\ k \notin DOMAIN begun.r.index.m) =>
                  /\ s.err = "ObjectNotFound"
                  /\ NoFrameAppended(disk, s.d)
                  /\ s.r = begun.r
                  /\ repo.active => s.r = repo

\* a delete of an absent key was refused inside a transaction that holds a key
C11_AbsentKeyRefused ==
    /\ isopen /\ repo.active
    /\ last.op = "delete" /\ last.err = "ObjectNotFound"
    /\ ~repo.index.none /\ DOMAIN repo.index.m # {}

EntriesLocatePuts(d) ==
    \A n \in DOMAIN d.idxf :
        n = SetMax(DOMAIN d.idxf) =>
            \A k \in DOMAIN d.idxf[n] : ValueAt(d, d.idxf[n][k], k) # "missing"

\* C13: after every successful commit, and after every recovery that
\* check_transaction completes in a newly opened repository, every key of the
\* persisted index maps to a (segment, offset) whose segment file exists and
\* holds, at that offset, a PUT frame of that key.
C13_SnapshotEntriesLocatePuts ==
    /\ AfterCommit => EntriesLocatePuts(disk)
    /\ (isopen /\ last.op = "open") =>
          LET s == check_transaction(Cur)
          IN ~Failed(s) => EntriesLocatePuts(s.d)

\* the number of entries of the index map m that point into segment n
EntriesIn(m, n) == Cardinality({k \in DOMAIN m : m[k][1] = n})

\* the live counts are the numbers of index entries, for every segment file of
\* directory d and every segment that an entry points into
CountsMatchIndex(d, segments, m) ==
    \A n \in (DOMAIN d.dir) \cup {m[k][1] : k \in DOMAIN m} :
        MapGet(segments, n, 0) = EntriesIn(m, n)

\* C14: for every segment s the live count segments[s] equals the number of
\* index entries whose segment is s: in memory while a transaction is active,
\* and in hints.<txid> against index.<txid> for every txid that has both files.
C14_LiveCountsMatchIndex ==
    /\ (isopen /\ repo.active /\ ~repo.index.none) =>
          CountsMatchIndex(disk, repo.segments, repo.index.m)
    /\ \A n \in (DOMAIN disk.idxf) \cap (DOMAIN disk.hintf) :
          CountsMatchIndex(disk, disk.hintf[n].segments, disk.idxf[n])

\* the bytes of the first n frames of a segment file that compaction can free
\* under the index map m: the DELETE frames and the PUT frames that no entry of
\* m locates (segment is the name of the file)
RECURSIVE SparseBytes(_, _, _, _)
SparseBytes(frames, n, segment, m) ==
    IF n = 0 THEN 0
    ELSE SparseBytes(frames, n - 1, segment, m) +
         (CASE frames[n].tag = "DELETE" -> FrameSize(frames[n])
            [] frames[n].tag = "PUT" ->
                 IF MapGet(m, frames[n].key, <<-1, -1>>) = <<segment, OffsetOf(frames, n)>>
                 THEN 0 ELSE FrameSize(frames[n])
            [] OTHER -> 0)

\* compact[s] is the freeable space of s, for every segment file s of directory d
FreeSpaceMatches(d, compact, m) ==
    \A n \in DOMAIN d.dir :
        MapGet(compact, n, 0) = SparseBytes(Linked(d)[n], Len(Linked(d)[n]), n, m)

\* C15: for every existing segment s, compact[s] equals the total size of the
\* superseded PUT frames and the DELETE frames stored in s (so compact[s] plus
\* the size of the PUT frames the index points to is the size of s without
\* the magic and the COMMIT frames): in memory while a transaction is active,
\* and in hints.<txid> against index.<txid> for every txid that has both files.
C15_FreeSpaceMatchesLog ==
    /\ (isopen /\ repo.active /\ ~repo.index.none) =>
          FreeSpaceMatches(disk, repo.compact, repo.index.m)
    /\ \A n \in (DOMAIN disk.idxf) \cap (DOMAIN disk.hintf) :
          FreeSpaceMatches(disk, disk.hintf[n].compact, disk.idxf[n])

\* segment file n of directory d holds a complete COMMIT frame
HoldsCommit(d, n) ==
    \E i \in 1..Len(Linked(d)[n]) : Linked(d)[n][i].tag = "COMMIT" /\ Linked(d)[n][i].ok

\* the segment files that hold a complete COMMIT frame
CommittedSegments(d) == {n \in DOMAIN d.dir : HoldsCommit(d, n)}

\* the segments into which the step from directory d1 to d2 wrote a COMMIT frame
NewlyCommitted(d1, d2) ==
    {n \in CommittedSegments(d2) : n \notin DOMAIN d1.dir \/ Linked(d2)[n] # Linked(d1)[n]}

IndexWithoutCommit == DOMAIN disk.idxf # {} /\ get_segments_transaction_id(Cur).ret = -1

\* C17: when a non-empty index.<N> file exists and no committed segment exists,
\* check_transaction raises CheckNeeded and changes nothing: the segment, index
\* and hints files stay as they are and no replay is started (the repository
\* object keeps its state, no transaction is opened).
C17_CheckNeededChangesNothing ==
    (isopen /\ IndexWithoutCommit) =>
        LET s == check_transaction(Cur)
        IN /\ s.err = "CheckNeeded"
           /\ DiskView(s.d) = DiskView(disk)
           /\ s.r = repo

C17_CheckNeededRaised ==
    /\ isopen /\ IndexWithoutCommit
    /\ last.op \in {"put", "get"} /\ last.err = "CheckNeeded"

\* the id of the highest committed segment, -1 if there is none
SegmentsId == get_segments_transaction_id(Cur).ret

\* the index snapshot and the committed segments disagree
Disagreement ==
    /\ isopen /\ ~repo.active
    /\ SegmentsId # -1
    /\ get_index_transaction_id(Cur) # SegmentsId

\* machine s holds exactly the snapshot of transaction id n and is idle
Reconciled(s, n) ==
    /\ get_index_transaction_id(s) = n
    /\ DOMAIN s.d.idxf = {n}
    /\ DOMAIN s.d.hintf = {n}
    /\ ~s.r.active
    /\ s.r.index.none

HintsUnreadable(d, n) == n \notin DOMAIN d.hintf \/ <<"hints", n>> \in d.bad

\* a repository just opened whose current index.<txid> has no usable hints.<txid>
OpenedWithoutHints ==
    /\ isopen /\ last.op = "open"
    /\ SegmentsId # -1
    /\ get_index_transaction_id(Cur) = SegmentsId
    /\ <<"index", SegmentsId>> \notin disk.bad
    /\ HintsUnreadable(disk, SegmentsId)

\* machine s has a parseable hints file for its highest committed segment
HintsWritten(s) ==
    LET n == get_segments_transaction_id(s).ret
    IN n \in DOMAIN s.d.hintf /\ <<"hints", n>> \notin s.d.bad

\* C19: if hints.<txid> is missing or cannot be parsed while index.<txid>
\* exists, the first put or delete after open terminates successfully: the
\* transaction it opens has the index that a full replay from an empty index
\* builds, its key->value state is the committed state, and the commit that
\* follows the mutation succeeds and writes a hints.<txid> file.
C19_MutationAfterHintsLoss ==
    OpenedWithoutHints =>
        /\ LET b == begin_txn(Cur)
           IN /\ ~Failed(b)
              /\ b.r.index.m = Replayed(disk, SegmentsId).r.index.m
              /\ Content(b) = committed
        /\ \A k \in Keys, v \in Values :
              LET c == commit(put(Cur, k, v), FALSE)
              IN ~Failed(put(Cur, k, v)) /\ ~Failed(c) /\ HintsWritten(c)
        /\ \A k \in DOMAIN committed :
              LET c == commit(delete(Cur, k), FALSE)
              IN ~Failed(delete(Cur, k)) /\ ~Failed(c) /\ HintsWritten(c)

\* a repository just opened whose newest index file cannot be read; it is the
\* snapshot of the highest committed segment or of an older one
OpenedWithBadIndex ==
    /\ isopen /\ last.op = "open"
    /\ SegmentsId # -1
    /\ get_index_transaction_id(Cur) # -1
    /\ get_index_transaction_id(Cur) <= SegmentsId
    /\ <<"index", get_index_transaction_id(Cur)>> \in disk.bad

\* machine s has a readable index file for its highest committed segment and
\* no unreadable one
IndexRebuilt(s) ==
    LET n == get_segments_transaction_id(s).ret
    IN n \in DOMAIN s.d.idxf /\ s.d.bad \cap ({"index"} \X DOMAIN s.d.idxf) = {}

\* C20: if index.<txid> cannot be read, at the current segments txid or at an
\* older one, a read operation (get, contains, len, list) unlinks the bad
\* file, rebuilds the index from the segments, commits, and answers with the
\* key->value mapping of the committed log; no error reaches the caller.
C20_ReadAfterIndexLoss ==
    OpenedWithBadIndex =>
        /\ ReadsAgree(Cur, committed)
        /\ ~Failed(list(Cur)) /\ list(Cur).ret = DOMAIN committed
        /\ IndexRebuilt(len(Cur))

\* the segment files of d1 up to id n are there, with the same content, in d2
SegmentsKept(d1, d2, n) ==
    \A m \in DOMAIN d1.dir :
        m <= n => m \in DOMAIN d2.dir /\ Linked(d2)[m] = Linked(d1)[m]

\* C21: in append-only mode no committed data is ever removed: every step (a
\* commit in particular, which runs no compaction) leaves every segment file
\* with id <= the highest committed segment id in place and unchanged; destroy
\* and check(repair=True) raise ValueError and leave the repository as it is.
C21_AppendOnlyKeepsSegments ==
    /\ [][repo.append_only => SegmentsKept(disk, disk', SegmentsId)]_vars
    /\ [][(repo.append_only /\ last'.op = "destroy") =>
             /\ last'.err = "ValueError"
             /\ UNCHANGED <<disk, io, repo, isopen>>]_vars
    /\ [][(repo.append_only /\ last'.op = "check" /\ last'.key = "repair") =>
             /\ last'.err = "ValueError"
             /\ UNCHANGED <<disk, io, repo, isopen>>]_vars

C21_CommitInAppendOnly ==
    /\ repo.append_only /\ AfterCommit /\ count.commits = 2
    /\ Cardinality(DOMAIN pending) < Cardinality(UNION {{<<n, i>> : i \in {j \in 1..Len(Linked(disk)[n]) : Linked(disk)[n][j].tag = "PUT"}} : n \in DOMAIN disk.dir})

\* C22: with the context manager the lock and the file descriptors are released
\* on every exit path: after the body ended normally or with an exception, and
\* after open failed inside __enter__, the lock is not held and io is closed.
C22_ReleasedOnEveryExit ==
    (last.op = "exit" \/ (last.op = "enter" /\ last.err # "ok")) =>
        ~repo.lock /\ ~isopen /\ io = NewIO

\* the two exits of the body release the lock and the LoggedIO
C22_ReleasedAfterBody == last.op = "exit" => ~repo.lock /\ ~isopen /\ io = NewIO

C22_BodyLeftByException ==
    last.op = "exit" /\ last.err = "exc" /\ DOMAIN disk.dir # {}

\* total byte size of the segment files of directory d
RECURSIVE SumFileSizes(_, _)
SumFileSizes(d, S) ==
    IF S = {} THEN 0
    ELSE FileSize(Linked(d)[SetMin(S)]) + SumFileSizes(d, S \ {SetMin(S)})

TotalSize(d) == SumFileSizes(d, DOMAIN d.dir)

\* the machine where commit is about to call compact_segments
BeforeCompaction == MarkDurable(write_commit(Cur))

\* C23: the segment files take no more bytes after compact_segments than they
\* took when compact_segments started, the segments that compaction itself
\* writes (copied frames, the COMMITs of complete_xfer) included.
C23_CompactionNeverGrows ==
    (isopen /\ repo.active /\ ~Failed(BeforeCompaction)) =>
        \A save_space \in BOOLEAN :
            ~Failed(compact_segments(BeforeCompaction, save_space)) =>
                TotalSize(compact_segments(BeforeCompaction, save_space).d)
                    <= TotalSize(BeforeCompaction.d)

\* the frames of the segment files whose CRC does not match, as <<segment, position>>
BadFrames(d) ==
    UNION {{<<n, i>> : i \in {j \in 1..Len(Linked(d)[n]) : ~Linked(d)[n][j].ok}} :
           n \in DOMAIN d.dir}

\* frame a comes before frame b in the log
Before(a, b) == a[1] < b[1] \/ (a[1] = b[1] /\ a[2] < b[2])

\* the PUT frames of k in the committed part of the log
CommittedPuts(k) == {a \in PutFramesOf(disk, k) : a[1] <= SegmentsId}

\* a freshly opened repository in which exactly one frame is corrupted: the last
\* PUT frame of the committed key k1
OnePutCorrupted(k1) ==
    /\ isopen /\ ~repo.active /\ last.op = "open"
    /\ k1 \in DOMAIN committed
    /\ Cardinality(BadFrames(disk)) = 1
    /\ BadFrames(disk) \subseteq CommittedPuts(k1)
    /\ \A b \in BadFrames(disk) : \A a \in CommittedPuts(k1) : a = b \/ Before(a, b)

\* C24: with exactly one PUT frame of a committed key k1 corrupted,
\* check(repair=False) returns false and changes no segment file;
\* check(repair=True) returns true, and afterwards get(k1) raises
\* ObjectNotFound while get of every other committed key returns its committed
\* value (the rebuilt index locates the frames in the rewritten segment).
C24_CheckFindsAndRepairs ==
    \A k1 \in Keys :
        OnePutCorrupted(k1) =>
            /\ LET verified == check(Cur, FALSE, FALSE)
               IN /\ ~Failed(verified) /\ verified.ret = FALSE
                  /\ Linked(verified.d) = Linked(disk)
            /\ \A save_space \in BOOLEAN :
                  LET repaired == check(Cur, TRUE, save_space)
                  IN /\ ~Failed(repaired) /\ repaired.ret = TRUE
                     /\ GetResult(repaired, k1) = "ObjectNotFound"
                     /\ \A k \in (DOMAIN committed) \ {k1} :
                           GetResult(repaired, k) = committed[k]

\* the directory with every frame readable again
Healed(d) ==
    [d EXCEPT !.ino = [i \in DOMAIN @ |->
                          [j \in 1..Len(@[i]) |-> [@[i][j] EXCEPT !.ok = TRUE]]]]

\* but for the corrupted frame, the committed log replays to the committed map
SoundLog ==
    LET r == Replayed(Healed(disk), SegmentsId)
    IN ~Failed(r) /\ Content(r) = committed

\* the same on the repositories whose log replays to what was committed
C24_RepairsSoundLog ==
    \A k1 \in Keys :
        (OnePutCorrupted(k1) /\ SoundLog) =>
            /\ LET verified == check(Cur, FALSE, FALSE)
               IN /\ ~Failed(verified) /\ verified.ret = FALSE
                  /\ Linked(verified.d) = Linked(disk)
            /\ \A save_space \in BOOLEAN :
                  LET repaired == check(Cur, TRUE, save_space)
                  IN /\ ~Failed(repaired) /\ repaired.ret = TRUE
                     /\ GetResult(repaired, k1) = "ObjectNotFound"
                     /\ \A k \in (DOMAIN committed) \ {k1} :
                           GetResult(repaired, k) = committed[k]

C24_RepairedWithOtherKeys ==
    /\ last.op = "check" /\ last.key = "repair" /\ last.val = "true"
    /\ count.faults = 1
    /\ Cardinality(DOMAIN committed) = 2
    /\ Cardinality({k \in Keys : GetResult(Cur, k) # "ObjectNotFound"}) = 1

\* the frames with the given tag in the segment files of d, as <<segment, position>>
FramesOf(d, tag) ==
    UNION {{<<n, i>> : i \in {j \in 1..Len(Linked(d)[n]) : Linked(d)[n][j].tag = tag}} :
           n \in DOMAIN d.dir}

\* the DELETE frames that a compaction from machine s0 to machine s1 dropped:
\* their segment was deleted and was not above the last index snapshot
DroppedDeletes(s0, s1) ==
    {a \in FramesOf(s0.d, "DELETE") :
        a[1] \notin DOMAIN s1.d.dir /\ a[1] <= get_index_transaction_id(s0)}

\* a segment file that compaction left alone still holds a PUT of the key of
\* DELETE frame a that is older than a
OlderPutSurvives(s0, s1, a) ==
    \E p \in FramesOf(s1.d, "PUT") :
        /\ p[1] < a[1] /\ p[1] \in DOMAIN s0.d.dir
        /\ Linked(s1.d)[p[1]][p[2]].key = Linked(s0.d)[a[1]][a[2]].key

\* a replay of the committed segments of machine s from an empty index does not
\* make key k present if the index of s does not hold it
StaysDeleted(s, k) ==
    LET r == Replayed(s.d, get_segments_transaction_id(s).ret)
    IN (~Failed(r) /\ k \notin DOMAIN s.r.index.m) => k \notin DOMAIN r.r.index.m

\* the machine where a commit called on machine b is about to call compact_segments
CommitPoint(b) == MarkDurable(write_commit(b))

\* a call has returned; ObjectNotFound (delete of a missing key) is raised inside
\* the transaction that the call began
Settled(b) == [b EXCEPT !.ret = 0, !.err = IF @ = "ObjectNotFound" THEN "ok" ELSE @]

\* the transactions that are open now or after the next call of put or delete
OpenTransactions ==
    {b \in {Cur} \cup {Settled(put(Cur, k, v)) : k \in Keys, v \in Values}
                 \cup {Settled(delete(Cur, k)) : k \in Keys} :
        ~Failed(b) /\ b.r.active}

\* C25: when the compaction of a commit drops a DELETE(k) frame (its segment is
\* not above the last index snapshot), no older PUT(k) frame remains in a
\* surviving segment, and a replay of the surviving segments from an empty
\* index does not make the deleted key k present again.
C25_DroppedDeleteIsReflected ==
    isopen =>
        \A b \in OpenTransactions, save_space \in BOOLEAN :
            LET s1 == compact_segments(CommitPoint(b), save_space)
            IN ~Failed(s1) =>
                  \A a \in DroppedDeletes(CommitPoint(b), s1) :
                      /\ ~OlderPutSurvives(CommitPoint(b), s1, a)
                      /\ StaysDeleted(s1, Linked(CommitPoint(b).d)[a[1]][a[2]].key)

\* the consequence alone: the deleted key does not come back in a replay
C25_ReplayAfterDrop ==
    isopen =>
        \A b \in OpenTransactions, save_space \in BOOLEAN :
            LET s1 == compact_segments(CommitPoint(b), save_space)
            IN ~Failed(s1) =>
                  \A a \in DroppedDeletes(CommitPoint(b), s1) :
                      StaysDeleted(s1, Linked(CommitPoint(b).d)[a[1]][a[2]].key)

\* the highest committed segment id of the directory that a kill left as view
CommittedId(view) ==
    get_segments_transaction_id(Machine(FromView(view), NewIO, NewRepo(FALSE))).ret

\* the committed part of the directory view holds, above segment n, a PUT frame
\* of k
CommittedCopy(view, k, n) ==
    \E m \in DOMAIN view.segs :
        /\ n < m /\ m <= CommittedId(view)
        /\ \E i \in 1..Len(view.segs[m]) :
              view.segs[m][i].tag = "PUT" /\ view.segs[m][i].key = k

\* the keys whose index entry in machine s points into segment n
PointingInto(s, n) == {k \in DOMAIN s.r.index.m : s.r.index.m[k][1] = n}

\* C26: compaction deletes a segment only after the copies of its live frames are
\* committed, and no index entry points into a segment it deleted: whenever a
\* kill during commit leaves a directory without a segment that was there when
\* compaction started, every PUT frame in that segment that the index pointed to
\* has a copy in the committed part of the directory.
C26_DeletedOnlyAfterCopiesCommitted ==
    (isopen /\ repo.active /\ ~Failed(BeforeCompaction)) =>
        \A save_space \in BOOLEAN :
            LET s1 == compact_segments(CommitPoint(Traced), save_space)
            IN /\ \A snap \in s1.trace :
                     \A n \in (DOMAIN BeforeCompaction.d.dir) \ DOMAIN snap.disk.segs :
                         \A k \in PointingInto(BeforeCompaction, n) :
                             CommittedCopy(snap.disk, k, n)
               /\ \A n \in (DOMAIN BeforeCompaction.d.dir) \ DOMAIN s1.d.dir :
                     PointingInto(s1, n) = {}

\* a commit whose compaction moved the only PUT frame of a committed key out of
\* segment 0, which it deleted
C26_LiveFrameMoved ==
    /\ AfterCommit
    /\ 0 \notin DOMAIN disk.dir
    /\ \E k \in DOMAIN committed :
          /\ Cardinality(PutFramesOf(disk, k)) = 1
          /\ GetResult(Cur, k) = committed[k]

\* the frames that machine s1 has in segment file n beyond those of machine s0
NewFrames(s0, s1, n) ==
    IF n \in DOMAIN s0.d.dir
    THEN SubSeq(Linked(s1.d)[n], Len(Linked(s0.d)[n]) + 1, Len(Linked(s1.d)[n]))
    ELSE Linked(s1.d)[n]

RECURSIVE AppendedFrom(_, _, _, _)
AppendedFrom(s0, s1, order, i) ==
    IF i > Len(order) THEN <<>>
    ELSE NewFrames(s0, s1, order[i]) \o AppendedFrom(s0, s1, order, i + 1)

\* what was appended to the log between machine s0 and machine s1, in log order;
\* the files of s0 are still there with their frames
Appended(s0, s1) == AppendedFrom(s0, s1, segment_iterator(s1), 1)

FilesKept(s0, s1) ==
    \A n \in DOMAIN s0.d.dir :
        /\ n \in DOMAIN s1.d.dir
        /\ Len(Linked(s0.d)[n]) <= Len(Linked(s1.d)[n])
        /\ SubSeq(Linked(s1.d)[n], 1, Len(Linked(s0.d)[n])) = Linked(s0.d)[n]

\* the segment whose file got a frame with the given tag between s0 and s1
GotFrame(s0, s1, tag) ==
    {n \in DOMAIN s1.d.dir :
        \E i \in 1..Len(NewFrames(s0, s1, n)) : NewFrames(s0, s1, n)[i].tag = tag}

SegmentOfNew(s0, s1, tag) ==
    IF GotFrame(s0, s1, tag) = {} THEN -1 ELSE CHOOSE n \in GotFrame(s0, s1, tag) : TRUE

\* the size of the PUT frame that entry = <<segment, offset>> locates in d
FrameSizeAt(d, entry) ==
    IF entry[1] \in DOMAIN d.dir /\ FrameIndexAt(Linked(d)[entry[1]], entry[2]) # 0
    THEN FrameSize(Linked(d)[entry[1]][FrameIndexAt(Linked(d)[entry[1]], entry[2])])
    ELSE -1

\* "self.segments.setdefault(segment, 0)"
SetDefault(m, k) == IF k \in DOMAIN m THEN m ELSE MapSet(m, k, 0)

\* put(k, v) took machine b, inside a transaction, to machine p as claimed
PutAsClaimed(b, p, k, v) ==
    /\ FilesKept(b, p)
    /\ p.r.index.m = MapSet(b.r.index.m, k, p.r.index.m[k])
    /\ p.r.index.m[k][1] = SegmentOfNew(b, p, "PUT")
    /\ p.r.index.m[k][1] \in DOMAIN p.d.dir
    /\ ValueAt(p.d, p.r.index.m[k], k) = v
    /\ Linked(p.d)[p.r.index.m[k][1]][Len(Linked(p.d)[p.r.index.m[k][1]])] = PutFrame(k, v)
    /\ IF k \in DOMAIN b.r.index.m
       THEN /\ Appended(b, p) = <<DeleteFrame(k), PutFrame(k, v)>>
            /\ p.r.segments =
                   MapAdd(SetDefault(MapAdd(b.r.segments, b.r.index.m[k][1], -1),
                                     SegmentOfNew(b, p, "DELETE")),
                          p.r.index.m[k][1], 1)
            /\ p.r.compact =
                   MapAdd(MapAdd(b.r.compact, b.r.index.m[k][1],
                                 FrameSizeAt(b.d, b.r.index.m[k])),
                          SegmentOfNew(b, p, "DELETE"), FrameSize(DeleteFrame(k)))
       ELSE /\ Appended(b, p) = <<PutFrame(k, v)>>
            /\ p.r.segments = MapAdd(b.r.segments, p.r.index.m[k][1], 1)
            /\ p.r.compact = b.r.compact

\* C27: put(k, v) for a key in the index appends DELETE(k) and then PUT(k, v),
\* takes one from the live count of the old segment and adds the sizes of the
\* old PUT frame and of the DELETE frame to compact; for a key not in the index
\* it appends only the PUT; either way index[k] locates the new PUT and the
\* live count of its segment grows by one.
C27_PutLogsAndCounts ==
    isopen =>
        \A k \in Keys, v \in Values :
            (~Failed(begin_txn(Cur)) /\ ~Failed(put(Cur, k, v))) =>
                PutAsClaimed(begin_txn(Cur), put(Cur, k, v), k, v)

\* the write fd, when one is open, is the file that the name of io.segment refers to
WriteFdLinked(s) ==
    s.io.wfd = 0 \/ (s.io.segment \in DOMAIN s.d.dir /\ s.d.dir[s.io.segment] = s.io.wfd)

\* the segment is read, by a cached fd or by name, from the file of that name
ReadFdLinked(s, segment) ==
    /\ segment \in DOMAIN s.d.dir
    /\ segment \in DOMAIN s.io.fds => s.io.fds[segment] = s.d.dir[segment]

\* C27, part: the same, for a put that neither writes nor reads through an fd that
\* a rollback left open
C27_PutLogsAndCountsOnLinkedFd ==
    isopen =>
        \A k \in Keys, v \in Values :
            (/\ ~Failed(begin_txn(Cur)) /\ WriteFdLinked(begin_txn(Cur))
             /\ k \in DOMAIN begin_txn(Cur).r.index.m =>
                    ReadFdLinked(begin_txn(Cur), begin_txn(Cur).r.index.m[k][1])
             /\ ~Failed(put(Cur, k, v))) =>
                PutAsClaimed(begin_txn(Cur), put(Cur, k, v), k, v)

\* a put of a key of the index whose DELETE and PUT went to different segments
C27_SupersededAcrossSegments ==
    /\ isopen /\ last.op = "put" /\ last.err = "ok" /\ last.key \in txn.super
    /\ \E n \in DOMAIN disk.dir :
          /\ Linked(disk)[n] # <<>>
          /\ Linked(disk)[n][Len(Linked(disk)[n])] = DeleteFrame(last.key)
          /\ n + 1 \in DOMAIN disk.dir
          /\ Linked(disk)[n + 1] = <<PutFrame(last.key, last.val)>>

\* the machine where a commit called now is about to call write_index
BeforeWriteIndex(save_space) ==
    compact_unless_append_only(CommitPoint(Cur), save_space)

\* what a kill can leave while write_index runs on machine b
WriteIndexTrace(b) == write_index([b EXCEPT !.rec = TRUE, !.trace = {}]).trace

\* the transaction id that write_index names its files after
NewTxid(b) == get_segments_transaction_id(b).ret

\* write_index is about to write files that are not there yet
WritesNewFiles(b) ==
    /\ ~Failed(b)
    /\ NewTxid(b) \notin (DOMAIN b.d.idxf) \cup (DOMAIN b.d.hintf)

\* view lacks an index.* or hints.* file that machine b had
OldFileGone(b, view) ==
    \/ ~((DOMAIN b.d.idxf) \subseteq DOMAIN view.idxf)
    \/ ~((DOMAIN b.d.hintf) \subseteq DOMAIN view.hintf)

BothInPlace(view, txid) == txid \in DOMAIN view.idxf /\ txid \in DOMAIN view.hintf

\* the old files go only after both new ones are in place
UnlinkedLast(b, trace, txid) ==
    \A snap \in trace : OldFileGone(b, snap.disk) => BothInPlace(snap.disk, txid)

IndexFirst(trace, txid) ==
    \A snap \in trace : txid \in DOMAIN snap.disk.hintf => txid \in DOMAIN snap.disk.idxf

HintsFirst(trace, txid) ==
    \A snap \in trace :
        (txid \in DOMAIN snap.disk.idxf \/ "index.tmp" \in snap.disk.tmpf)
            => txid \in DOMAIN snap.disk.hintf

\* C28 as stated: index.tmp is written and renamed to index.<txid> before
\* hints.<txid>.tmp is renamed to hints.<txid>, and the index.* and hints.* files
\* of other txids are unlinked only after both new files are in place.
C28_IndexBeforeHints ==
    (isopen /\ repo.active) =>
        \A save_space \in BOOLEAN :
            LET b == BeforeWriteIndex(save_space)
                trace == WriteIndexTrace(b)
                txid == NewTxid(b)
            IN WritesNewFiles(b) =>
                   IndexFirst(trace, txid) /\ UnlinkedLast(b, trace, txid)

\* C28, amended: the hints file is written and renamed to hints.<txid> before
\* index.tmp is written and renamed to index.<txid>, and the index.* and hints.*
\* files of other txids are unlinked only after both new files are in place.
C28_HintsBeforeIndex ==
    (isopen /\ repo.active) =>
        \A save_space \in BOOLEAN :
            LET b == BeforeWriteIndex(save_space)
                trace == WriteIndexTrace(b)
                txid == NewTxid(b)
            IN WritesNewFiles(b) =>
                   HintsFirst(trace, txid) /\ UnlinkedLast(b, trace, txid)

\* a second commit has written its files and unlinked those of the first
C28_OldFilesReplaced ==
    /\ AfterCommit /\ count.commits >= 2
    /\ DOMAIN disk.idxf = DOMAIN disk.hintf
    /\ Cardinality(DOMAIN disk.idxf) = 1
    /\ \A n \in DOMAIN disk.idxf : n >= 3

\* C29: the assertions of compaction never fail: when compact_segments has
\* scanned a segment its live count is 0, and every segment that complete_xfer
\* drops has a segments entry equal to 0 (commit raises neither AssertionError
\* nor the KeyError of a missing entry).
C29_CompactionAssertionsHold ==
    last.op = "commit" => last.err \notin {"AssertionError", "KeyError"}

\* C29, part: the same in the histories without a read
C29_AssertionsHoldWithoutReads ==
    (last.op = "commit" /\ count.reads = 0) =>
        last.err \notin {"AssertionError", "KeyError"}

\* C30: whenever prepare_txn returns normally the repository is in the active
\* state, also when it had to recover an unreadable index on the way; so after
\* a successful put or delete the repository is active and the next put or
\* delete does not run prepare_txn again.
C30_ActiveAfterPrepareTxn ==
    /\ (isopen /\ ~Failed(begin_txn(Cur))) => begin_txn(Cur).r.active
    /\ (isopen /\ last.op \in {"put", "delete"} /\ last.err = "ok") => repo.active

\* C30, part: the same when prepare_txn finds no unreadable index file
C30_ActiveWithReadableIndex ==
    (isopen /\ ~Failed(begin_txn(Cur))
       /\ \A n \in DOMAIN disk.idxf : <<"index", n>> \notin disk.bad)
        => begin_txn(Cur).r.active

====
